---- MODULE Spec2Model ----
(***************************************************************************)
(* Model of the tag classification and identity-resolution engine of the   *)
(* MTL converter (src/step3_convert.py with the tables of src/patterns.py).*)
(* Python strings are TLA+ strings; the regular expressions of the source  *)
(* are kept as syntax trees and matched by a backtracking matcher with the *)
(* priority order of Python's re module.                                   *)
(***************************************************************************)
EXTENDS Integers, Sequences, FiniteSets, TLC

VARIABLES df, idx, mtl_entries, text, out, pc

vars == <<df, idx, mtl_entries, text, out, pc>>

-----------------------------------------------------------------------------
(* Characters and the str methods the source uses.                         *)

UpperChars == "ABCDEFGHIJKLMNOPQRSTUVWXYZ"
LowerChars == "abcdefghijklmnopqrstuvwxyz"
DigitChars == "0123456789"

CharSet(s) == {SubSeq(s, i, i) : i \in 1..Len(s)}

Upper == CharSet(UpperChars)
Lower == CharSet(LowerChars)
Digit == CharSet(DigitChars)
Space == {" "}
Punct == CharSet("-_[]()!:/.,$%&")
Word  == Upper \cup Lower \cup Digit \cup {"_"}
AnyChar == Word \cup Space \cup Punct

ToUpperMap == [c \in Lower |->
                 LET k == CHOOSE j \in 1..Len(LowerChars) : SubSeq(LowerChars, j, j) = c
                 IN  SubSeq(UpperChars, k, k)]
ToLowerMap == [c \in Upper |->
                 LET k == CHOOSE j \in 1..Len(UpperChars) : SubSeq(UpperChars, j, j) = c
                 IN  SubSeq(LowerChars, k, k)]

ch(s, i) == SubSeq(s, i, i)

\* str.upper() and str.lower(), character by character (the string is halved
\* rather than walked, which keeps the evaluation shallow)
RECURSIVE str_upper(_)
str_upper(s) ==
    IF s = "" THEN ""
    ELSE IF Len(s) = 1 THEN (IF s \in Lower THEN ToUpperMap[s] ELSE s)
    ELSE str_upper(SubSeq(s, 1, Len(s) \div 2))
         \o str_upper(SubSeq(s, Len(s) \div 2 + 1, Len(s)))

RECURSIVE str_lower(_)
str_lower(s) ==
    IF s = "" THEN ""
    ELSE IF Len(s) = 1 THEN (IF s \in Upper THEN ToLowerMap[s] ELSE s)
    ELSE str_lower(SubSeq(s, 1, Len(s) \div 2))
         \o str_lower(SubSeq(s, Len(s) \div 2 + 1, Len(s)))

startswith(s, p) == Len(p) <= Len(s) /\ SubSeq(s, 1, Len(p)) = p
endswith(s, p)   == Len(p) <= Len(s) /\ SubSeq(s, Len(s) - Len(p) + 1, Len(s)) = p

\* str.find: the first index (1-based) at which sub occurs in s, 0 if none
str_find(s, sub) ==
    LET hits == {i \in 1..(Len(s) - Len(sub) + 1) : SubSeq(s, i, i + Len(sub) - 1) = sub}
    IN  IF hits = {} THEN 0 ELSE CHOOSE i \in hits : \A j \in hits : i <= j

\* the Python test  sub in s
contains(s, sub) == \E i \in 1..(Len(s) - Len(sub) + 1) : SubSeq(s, i, i + Len(sub) - 1) = sub

RECURSIVE str_replace(_, _, _)
str_replace(s, old, new) ==
    IF Len(s) < Len(old) THEN s
    ELSE IF SubSeq(s, 1, Len(old)) = old
         THEN new \o str_replace(SubSeq(s, Len(old) + 1, Len(s)), old, new)
         ELSE Head(s) \o str_replace(Tail(s), old, new)

RECURSIVE str_lstrip(_)
str_lstrip(s) == IF s # "" /\ Head(s) \in Space THEN str_lstrip(Tail(s)) ELSE s

RECURSIVE str_rstrip(_)
str_rstrip(s) ==
    IF s # "" /\ ch(s, Len(s)) \in Space THEN str_rstrip(SubSeq(s, 1, Len(s) - 1)) ELSE s

str_strip(s) == str_lstrip(str_rstrip(s))

\* s.split(sep, 1): the parts before and after the first sep, or <<s>> alone
split1(s, sep) ==
    LET k == str_find(s, sep)
    IN  IF k = 0 THEN <<s>>
        ELSE <<SubSeq(s, 1, k - 1), SubSeq(s, k + Len(sep), Len(s))>>

\* s.split(sep)[0]
split_first(s, sep) == split1(s, sep)[1]

-----------------------------------------------------------------------------
(* Regular expressions: syntax trees and the matcher.                      *)

Cls(S)         == [t |-> "cls", s |-> S]
Cat(rs)        == [t |-> "cat", rs |-> rs]
Alt(rs)        == [t |-> "alt", rs |-> rs]
Rep(r, lo, hi) == [t |-> "rep", r |-> r, lo |-> lo, hi |-> hi]
Opt(r)         == [t |-> "rep", r |-> r, lo |-> 0, hi |-> 1]
Star(r)        == [t |-> "rep", r |-> r, lo |-> 0, hi |-> -1]
Plus(r)        == [t |-> "rep", r |-> r, lo |-> 1, hi |-> -1]
Grp(n, r)      == [t |-> "grp", n |-> n, r |-> r]
Bol            == [t |-> "bol"]
Eol            == [t |-> "eol"]
Wb             == [t |-> "wb"]
NotAhead(r)    == [t |-> "nla", r |-> r]
NotBehind(r)   == [t |-> "nlb", r |-> r]
Lit(str)       == Cat([i \in 1..Len(str) |-> Cls({SubSeq(str, i, i)})])

\* a compiled pattern: the tree, the number of groups, the IGNORECASE flag
Re(r, ng, ic)  == [r |-> r, ng |-> ng, ic |-> ic]

InCls(c, S, ic) ==
    \/ c \in S
    \/ ic /\ c \in Lower /\ ToUpperMap[c] \in S
    \/ ic /\ c \in Upper /\ ToLowerMap[c] \in S

IsWordAt(s, i) == i >= 1 /\ i <= Len(s) /\ ch(s, i) \in Word

\* M(r, s, i, caps, ic): every way r matches s from position i, as
\* <<end position, groups>>, in the order the backtracking matcher tries them
RECURSIVE M(_, _, _, _, _)
RECURSIVE MCat(_, _, _, _, _, _)
RECURSIVE MCatAll(_, _, _, _, _, _)
RECURSIVE MAlt(_, _, _, _, _, _)
RECURSIVE MRep(_, _, _, _, _, _, _)
RECURSIVE MRepAll(_, _, _, _, _, _, _)

M(r, s, i, caps, ic) ==
    CASE r.t = "cls" -> IF i <= Len(s) /\ InCls(ch(s, i), r.s, ic)
                        THEN << <<i + 1, caps>> >> ELSE << >>
      [] r.t = "cat" -> MCat(r.rs, 1, s, i, caps, ic)
      [] r.t = "alt" -> MAlt(r.rs, 1, s, i, caps, ic)
      [] r.t = "rep" -> MRep(r, 0, s, i, caps, ic, TRUE)
      [] r.t = "grp" -> LET res == M(r.r, s, i, caps, ic)
                        IN  [k \in 1..Len(res) |->
                               <<res[k][1], [res[k][2] EXCEPT ![r.n] = <<i, res[k][1]>>]>>]
      [] r.t = "bol" -> IF i = 1 THEN << <<i, caps>> >> ELSE << >>
      [] r.t = "eol" -> IF i = Len(s) + 1 THEN << <<i, caps>> >> ELSE << >>
      [] r.t = "wb"  -> IF IsWordAt(s, i - 1) # IsWordAt(s, i)
                        THEN << <<i, caps>> >> ELSE << >>
      [] r.t = "nla" -> IF M(r.r, s, i, caps, ic) = << >>
                        THEN << <<i, caps>> >> ELSE << >>
      [] r.t = "nlb" -> IF i >= 2 /\ M(r.r, s, i - 1, caps, ic) # << >>
                        THEN << >> ELSE << <<i, caps>> >>

\* the items rs[k..] in sequence
MCat(rs, k, s, i, caps, ic) ==
    IF k > Len(rs) THEN << <<i, caps>> >>
    ELSE MCatAll(rs, k, s, M(rs[k], s, i, caps, ic), 1, ic)

MCatAll(rs, k, s, res, j, ic) ==
    IF j > Len(res) THEN << >>
    ELSE MCat(rs, k + 1, s, res[j][1], res[j][2], ic) \o MCatAll(rs, k, s, res, j + 1, ic)

\* the alternatives rs[k..], left to right
MAlt(rs, k, s, i, caps, ic) ==
    IF k > Len(rs) THEN << >>
    ELSE M(rs[k], s, i, caps, ic) \o MAlt(rs, k + 1, s, i, caps, ic)

\* greedy repetition: one more iteration is tried before stopping
MRep(r, n, s, i, caps, ic, moved) ==
    LET more == IF (r.hi = -1 \/ n < r.hi) /\ moved
                THEN MRepAll(r, n, s, M(r.r, s, i, caps, ic), 1, ic, i)
                ELSE << >>
        stop == IF n >= r.lo THEN << <<i, caps>> >> ELSE << >>
    IN  more \o stop

MRepAll(r, n, s, res, j, ic, from) ==
    IF j > Len(res) THEN << >>
    ELSE MRep(r, n + 1, s, res[j][1], res[j][2], ic, res[j][1] > from)
         \o MRepAll(r, n, s, res, j + 1, ic, from)

NoGroups(ng) == [g \in 1..ng |-> <<0, 0>>]
NoMatch == [ok |-> FALSE, st |-> 0, en |-> 0, g |-> << >>]

\* pattern.match(s): the match at the start of s
re_match(p, s) ==
    LET res == M(p.r, s, 1, NoGroups(p.ng), p.ic)
    IN  IF res = << >> THEN NoMatch
        ELSE [ok |-> TRUE, st |-> 1, en |-> res[1][1], g |-> res[1][2]]

\* pattern.search(s): the leftmost match
re_search(p, s) ==
    LET starts == {i \in 1..(Len(s) + 1) : M(p.r, s, i, NoGroups(p.ng), p.ic) # << >>}
    IN  IF starts = {} THEN NoMatch
        ELSE LET i == CHOOSE k \in starts : \A j \in starts : k <= j
                 res == M(p.r, s, i, NoGroups(p.ng), p.ic)
             IN  [ok |-> TRUE, st |-> i, en |-> res[1][1], g |-> res[1][2]]

\* match.group(n) is not None, and match.group(n) (the empty string for None)
has_group(m, n) == m.g[n] # <<0, 0>>
group(m, s, n)  == IF has_group(m, n) THEN SubSeq(s, m.g[n][1], m.g[n][2] - 1) ELSE ""

-----------------------------------------------------------------------------
(* Python values of the Description cell: a string, a number left by the   *)
(* spreadsheet parser, or NaN for an empty cell.                           *)

PyStr(s) == [k |-> "str", s |-> s, n |-> 0]
PyNum(n) == [k |-> "num", s |-> "", n |-> n]
PyNaN    == [k |-> "nan", s |-> "", n |-> 0]

isinstance_str(v) == v.k = "str"
isna(v)           == v.k = "nan"
\* bool(v)
truthy(v) == CASE v.k = "str" -> v.s # ""
               [] v.k = "num" -> v.n # 0
               [] v.k = "nan" -> TRUE

RECURSIVE int_str(_)
int_str(n) == IF n < 10 THEN SubSeq(DigitChars, n + 1, n + 1)
              ELSE int_str(n \div 10) \o SubSeq(DigitChars, (n % 10) + 1, (n % 10) + 1)

\* str(v)
py_str(v) == CASE v.k = "str" -> v.s
               [] v.k = "num" -> int_str(v.n)
               [] v.k = "nan" -> "nan"

-----------------------------------------------------------------------------
(* Tables of src/patterns.py.                                              *)

\* a variant with the two-letter transmitter prefixes (PT, LT, ...)
ALARM_TO_TRANSMITTER_two_letter ==
    [m \in {"P", "T", "L", "F", "A", "D", "V"} |-> m \o "T"]

\* src/patterns.py line 442
ALARM_TO_TRANSMITTER ==
    [m \in {"P", "T", "L", "F", "A", "D", "V"} |-> m \o "IT"]

TWO_LETTER_TRANSMITTER_PREFIXES ==
    ("PT" :> "PIT") @@ ("PI" :> "PIT") @@ ("LT" :> "LIT") @@ ("LI" :> "LIT") @@
    ("TT" :> "TIT") @@ ("TI" :> "TIT") @@ ("FT" :> "FIT") @@ ("FI" :> "FIT") @@
    ("VT" :> "VIT") @@ ("VI" :> "VIT") @@ ("AT" :> "AIT") @@ ("DT" :> "DIT")

VALVE_Y_TO_V ==
    ("LY" :> "LV") @@ ("PY" :> "PV") @@ ("TY" :> "TV") @@ ("FY" :> "FV") @@
    ("XY" :> "XV") @@ ("LXY" :> "LXV")

VALVE_SWITCH_TO_XV == {"ZSO", "ZSC", "ZIO", "ZIC", "XSO", "XSC", "XIO", "XIC"}

\* the keys of VALVE_PATTERNS
VALVE_PATTERNS ==
    <<"PCV", "LCV", "LXCV", "TCV", "FCV", "PY", "LY", "LXY", "TY", "FY",
      "XV", "PV", "LV", "TV", "FV">>

\* the keys of VALVE_SWITCH_PATTERNS
VALVE_SWITCH_PATTERNS == {"ZSO", "ZSC", "ZIO", "ZIC", "XSO", "XSC", "XIO", "XIC"}

IO_SUFFIXES == <<"!RD", "!WR", "!SC">>

SeqToSet(q) == {q[i] : i \in 1..Len(q)}

-----------------------------------------------------------------------------
(* Target id normalization (step3_convert.py, from prefix_handler.py).     *)

\* line 208: r'^([A-Z]+)(\d+[A-Z]* )$'
re_normalize_target_id ==
    Re(Cat(<<Bol, Grp(1, Plus(Cls(Upper))), Grp(2, Cat(<<Plus(Cls(Digit)),
        Star(Cls(Upper))>>)), Eol>>), 2, FALSE)

\* a variant that matches the pattern before the text is uppercased
normalize_target_id_upper_last(s) ==
    IF s = "" THEN s
    ELSE LET normalized == str_strip(str_replace(s, "_", "-"))
             match == re_match(re_normalize_target_id, normalized)
         IN  IF contains(normalized, "-") THEN str_upper(normalized)
             ELSE IF match.ok
                  THEN group(match, normalized, 1) \o "-" \o group(match, normalized, 2)
                  ELSE str_upper(normalized)

\* lines 201-211
normalize_target_id(s) ==
    IF s = "" THEN s
    ELSE LET normalized == str_strip(str_upper(str_replace(s, "_", "-")))
             match == re_match(re_normalize_target_id, normalized)
         IN  IF contains(normalized, "-") THEN normalized
             ELSE IF match.ok
                  THEN group(match, normalized, 1) \o "-" \o group(match, normalized, 2)
                  ELSE normalized

normalize_transmitter_prefix(target_id) ==
    IF target_id = "" THEN target_id
    ELSE LET parts == split1(target_id, "-")
         IN  IF Len(parts) # 2 THEN target_id
             ELSE LET prefix_upper == str_upper(parts[1])
                  IN  IF prefix_upper \in DOMAIN TWO_LETTER_TRANSMITTER_PREFIXES
                      THEN TWO_LETTER_TRANSMITTER_PREFIXES[prefix_upper] \o "-" \o parts[2]
                      ELSE target_id

resolve_valve_target_id(tag_id) ==
    IF tag_id = "" THEN ""
    ELSE LET parts == IF contains(tag_id, "-") THEN split1(tag_id, "-")
                      ELSE split1(tag_id, "_")
         IN  IF Len(parts) # 2 THEN tag_id
             ELSE LET prefix_upper == str_upper(parts[1])
                      suffix == parts[2]
                  IN  IF prefix_upper \in VALVE_SWITCH_TO_XV THEN "XV-" \o suffix
                      ELSE IF prefix_upper \in DOMAIN VALVE_Y_TO_V
                           THEN VALVE_Y_TO_V[prefix_upper] \o "-" \o suffix
                      ELSE IF contains(prefix_upper, "Y") /\ prefix_upper # "LXY"
                           THEN str_replace(prefix_upper, "Y", "V") \o "-" \o suffix
                      ELSE tag_id

\* line 252: r'^([PLTFAVD])([XI]?)S(HH|H|LL|L)?$', re.IGNORECASE
re_is_switch_tag ==
    Re(Cat(<<Bol, Grp(1, Cls({"P", "L", "T", "F", "A", "V", "D"})), Grp(2, Opt(Cls({"X",
        "I"}))), Cls({"S"}), Opt(Grp(3, Alt(<<Lit("HH"), Cls({"H"}), Lit("LL"),
        Cls({"L"})>>))), Eol>>), 3, TRUE)
\* line 255: r'^PDS(HH|H|LL|L)?$', re.IGNORECASE
re_is_switch_tag_pd ==
    Re(Cat(<<Bol, Lit("PDS"), Opt(Grp(1, Alt(<<Lit("HH"), Cls({"H"}), Lit("LL"),
        Cls({"L"})>>))), Eol>>), 1, TRUE)

is_switch_tag(target_id) ==
    IF target_id = "" THEN FALSE
    ELSE LET pre == IF contains(target_id, "-") THEN split_first(target_id, "-")
                    ELSE target_id
             pre_upper == str_upper(pre)
         IN  \/ re_match(re_is_switch_tag, pre_upper).ok
             \/ re_match(re_is_switch_tag_pd, pre_upper).ok

\* line 264: r'^[ZX][SI][OC][-_]'
re_is_valve_position_switch ==
    Re(Cat(<<Bol, Cls({"Z", "X"}), Cls({"S", "I"}), Cls({"O", "C"}), Cls({"-", "_"})>>), 0,
        FALSE)

is_valve_position_switch(target_id) ==
    target_id # "" /\ re_match(re_is_valve_position_switch, str_upper(target_id)).ok

\* line 278: r'\b[ZX][IS][OC][-_]?\d+'
re_is_valve_tag ==
    Re(Cat(<<Wb, Cls({"Z", "X"}), Cls({"I", "S"}), Cls({"O", "C"}), Opt(Cls({"-", "_"})),
        Plus(Cls(Digit))>>), 0, FALSE)

\* the prefix tests of is_valve_tag, lines 271-277
is_valve_tag_by_prefix(target_id) ==
    LET prefix == IF contains(target_id, "-") THEN str_upper(split_first(target_id, "-"))
                  ELSE str_upper(split_first(target_id, "_"))
    IN  \/ prefix \in SeqToSet(VALVE_PATTERNS) \/ prefix \in VALVE_SWITCH_PATTERNS
        \/ prefix \in VALVE_SWITCH_TO_XV
        \/ endswith(prefix, "V") /\ Len(prefix) <= 4 /\ prefix # "PV"

\* description.upper() at line 278 raises AttributeError for a number
is_valve_tag_raises(target_id, description) ==
    /\ target_id # ""
    /\ ~is_valve_tag_by_prefix(target_id)
    /\ truthy(description) /\ ~isinstance_str(description)

is_valve_tag(target_id, description) ==
    IF target_id = "" THEN FALSE
    ELSE \/ is_valve_tag_by_prefix(target_id)
         \/ /\ truthy(description)
            /\ re_search(re_is_valve_tag, str_upper(description.s)).ok

-----------------------------------------------------------------------------
(* Alarm tag conversion (step3_convert.py, from prefix_handler.py).        *)

\* line 382: r'^([PLTFAVD])([XI]?)S(HH|H|LL|L)?-(.+)$', re.IGNORECASE
re_switch_pattern ==
    Re(Cat(<<Bol, Grp(1, Cls({"P", "L", "T", "F", "A", "V", "D"})), Grp(2, Opt(Cls({"X",
        "I"}))), Cls({"S"}), Opt(Grp(3, Alt(<<Lit("HH"), Cls({"H"}), Lit("LL"),
        Cls({"L"})>>))), Cls({"-"}), Grp(4, Plus(Cls(AnyChar))), Eol>>), 4, TRUE)
\* line 388: r'^([PLTFAVD])([XI]?)A(HH|H|LL|L)-(.+)$', re.IGNORECASE
re_alarm_pattern ==
    Re(Cat(<<Bol, Grp(1, Cls({"P", "L", "T", "F", "A", "V", "D"})), Grp(2, Opt(Cls({"X",
        "I"}))), Cls({"A"}), Grp(3, Alt(<<Lit("HH"), Cls({"H"}), Lit("LL"), Cls({"L"})>>)),
        Cls({"-"}), Grp(4, Plus(Cls(AnyChar))), Eol>>), 4, TRUE)
\* line 392: r'^(PD|DP)A(HH|H|LL|L)-(.+)$', re.IGNORECASE
re_dp_alarm ==
    Re(Cat(<<Bol, Grp(1, Alt(<<Lit("PD"), Lit("DP")>>)), Cls({"A"}), Grp(2, Alt(<<Lit("HH"),
        Cls({"H"}), Lit("LL"), Cls({"L"})>>)), Cls({"-"}), Grp(3, Plus(Cls(AnyChar))),
        Eol>>), 3, TRUE)

\* Returns (converted_tag, alarm_level, is_switch); level "" is None.
convert_alarm_tag_to_transmitter(tag_id) ==
    IF tag_id = "" THEN [tag |-> tag_id, level |-> "", is_switch |-> FALSE]
    ELSE LET sw == re_match(re_switch_pattern, tag_id)
             al == re_match(re_alarm_pattern, tag_id)
             dp == re_match(re_dp_alarm, tag_id)
         IN  IF sw.ok
             THEN [tag |-> tag_id, level |-> str_upper(group(sw, tag_id, 3)),
                   is_switch |-> TRUE]
             ELSE IF ~al.ok
             THEN IF dp.ok
                  THEN [tag |-> "PDIT-" \o str_upper(group(dp, tag_id, 3)),
                        level |-> str_upper(group(dp, tag_id, 2)), is_switch |-> FALSE]
                  ELSE [tag |-> tag_id, level |-> "", is_switch |-> FALSE]
             ELSE LET meas_type == str_upper(group(al, tag_id, 1))
                      modifier == str_upper(group(al, tag_id, 2))
                      alarm_level == str_upper(group(al, tag_id, 3))
                      number == str_upper(group(al, tag_id, 4))
                      base_prefix == IF meas_type \in DOMAIN ALARM_TO_TRANSMITTER
                                     THEN ALARM_TO_TRANSMITTER[meas_type]
                                     ELSE meas_type \o "IT"
                      transmitter_prefix ==
                          IF modifier # ""
                          THEN Head(base_prefix) \o modifier \o Tail(base_prefix)
                          ELSE base_prefix
                  IN  [tag |-> transmitter_prefix \o "-" \o number,
                       level |-> alarm_level, is_switch |-> FALSE]

\* The variant kept in src/converters/tag_classifier.py.
\* line 571: r'^([PLTFAVD])([XI]?)S(HH|H|LL|L)-(.+)$', re.IGNORECASE
re_tc_switch_pattern ==
    Re(Cat(<<Bol, Grp(1, Cls({"P", "L", "T", "F", "A", "V", "D"})), Grp(2, Opt(Cls({"X",
        "I"}))), Cls({"S"}), Grp(3, Alt(<<Lit("HH"), Cls({"H"}), Lit("LL"), Cls({"L"})>>)),
        Cls({"-"}), Grp(4, Plus(Cls(AnyChar))), Eol>>), 4, TRUE)
\* line 577: r'^([PLTFAVD])([XI]?)A(HH|H|LL|L)-(.+)$', re.IGNORECASE
re_tc_alarm_pattern ==
    Re(Cat(<<Bol, Grp(1, Cls({"P", "L", "T", "F", "A", "V", "D"})), Grp(2, Opt(Cls({"X",
        "I"}))), Cls({"A"}), Grp(3, Alt(<<Lit("HH"), Cls({"H"}), Lit("LL"), Cls({"L"})>>)),
        Cls({"-"}), Grp(4, Plus(Cls(AnyChar))), Eol>>), 4, TRUE)

tc_convert_alarm_tag_to_transmitter(tag_id) ==
    IF tag_id = "" THEN [tag |-> tag_id, level |-> "", is_switch |-> FALSE]
    ELSE LET sw == re_match(re_tc_switch_pattern, tag_id)
             al == re_match(re_tc_alarm_pattern, tag_id)
         IN  IF sw.ok
             THEN [tag |-> tag_id, level |-> str_upper(group(sw, tag_id, 3)),
                   is_switch |-> TRUE]
             ELSE IF ~al.ok
             THEN [tag |-> tag_id, level |-> "", is_switch |-> FALSE]
             ELSE LET meas_type == str_upper(group(al, tag_id, 1))
                      modifier == str_upper(group(al, tag_id, 2))
                      base_prefix == IF meas_type \in DOMAIN ALARM_TO_TRANSMITTER
                                     THEN ALARM_TO_TRANSMITTER[meas_type]
                                     ELSE meas_type \o "IT"
                      transmitter_prefix ==
                          IF modifier # ""
                          THEN Head(base_prefix) \o modifier \o Tail(base_prefix)
                          ELSE base_prefix
                  IN  [tag |-> transmitter_prefix \o "-" \o str_upper(group(al, tag_id, 4)),
                       level |-> str_upper(group(al, tag_id, 3)), is_switch |-> FALSE]

-----------------------------------------------------------------------------
(* Tag extraction from the description.                                    *)

TRANSMITTER_PREFIXES ==
    <<"PDIT", "DPIT", "LXIT", "LXI", "PIT", "PI", "FIT", "FI", "TIT", "TI",
      "LIT", "LI", "VIT", "VI", "AIT", "AT", "FCU", "TE">>

\* line 669: r'^([PLTFAVD])IT[-_]([A-Z]?\d+(?:[-_]\d+)?)[-_](?:[PLTFAVD][XI]?(?:A|S)?(?:HH|H|LL|L))\s', re.IGNORECASE
re_p1 ==
    Re(Cat(<<Bol, Grp(1, Cls({"P", "L", "T", "F", "A", "V", "D"})), Lit("IT"), Cls({"-",
        "_"}), Grp(2, Cat(<<Opt(Cls(Upper)), Plus(Cls(Digit)), Opt(Cat(<<Cls({"-", "_"}),
        Plus(Cls(Digit))>>))>>)), Cls({"-", "_"}), Cls({"P", "L", "T", "F", "A", "V", "D"}),
        Opt(Cls({"X", "I"})), Opt(Alt(<<Cls({"A"}), Cls({"S"})>>)), Alt(<<Lit("HH"),
        Cls({"H"}), Lit("LL"), Cls({"L"})>>), Cls(Space)>>), 2, TRUE)
\* line 677: r'([PLTFAVD])([XI]?)(S)?([AO])?(HH|H|LL|L)-([A-Z]?\d+[A-Z]?(?:[-_]\d+)?)\s*$', re.IGNORECASE
re_p2 ==
    Re(Cat(<<Grp(1, Cls({"P", "L", "T", "F", "A", "V", "D"})), Grp(2, Opt(Cls({"X", "I"}))),
        Opt(Grp(3, Cls({"S"}))), Opt(Grp(4, Cls({"A", "O"}))), Grp(5, Alt(<<Lit("HH"),
        Cls({"H"}), Lit("LL"), Cls({"L"})>>)), Cls({"-"}), Grp(6, Cat(<<Opt(Cls(Upper)),
        Plus(Cls(Digit)), Opt(Cls(Upper)), Opt(Cat(<<Cls({"-", "_"}),
        Plus(Cls(Digit))>>))>>)), Star(Cls(Space)), Eol>>), 6, TRUE)
\* line 693: r'\(([PLTFAVD])([XI]?)(S)?([AO])?(HH|H|LL|L)-([A-Z]?\d+[A-Z]?(?:[-_][A-Z]?\d+)?)-?(?:[Ss]etpoint|[Ss][Pp]|[Ss]et[- ][Pp]oint)', re.IGNORECASE
re_p3 ==
    Re(Cat(<<Cls({"("}), Grp(1, Cls({"P", "L", "T", "F", "A", "V", "D"})), Grp(2,
        Opt(Cls({"X", "I"}))), Opt(Grp(3, Cls({"S"}))), Opt(Grp(4, Cls({"A", "O"}))), Grp(5,
        Alt(<<Lit("HH"), Cls({"H"}), Lit("LL"), Cls({"L"})>>)), Cls({"-"}), Grp(6,
        Cat(<<Opt(Cls(Upper)), Plus(Cls(Digit)), Opt(Cls(Upper)), Opt(Cat(<<Cls({"-", "_"}),
        Opt(Cls(Upper)), Plus(Cls(Digit))>>))>>)), Opt(Cls({"-"})), Alt(<<Cat(<<Cls({"S",
        "s"}), Lit("etpoint")>>), Cat(<<Cls({"S", "s"}), Cls({"P", "p"})>>), Cat(<<Cls({"S",
        "s"}), Lit("et"), Cls({"-", " "}), Cls({"P", "p"}), Lit("oint")>>)>>)>>), 6, TRUE)
\* line 709: r'\(([PLTFAVD])([XI]?)(S)?([AO])?(HH|H|LL|L)-([A-Z]?\d+[A-Z]?(?:[-_]\d+)?)\)', re.IGNORECASE
re_p4 ==
    Re(Cat(<<Cls({"("}), Grp(1, Cls({"P", "L", "T", "F", "A", "V", "D"})), Grp(2,
        Opt(Cls({"X", "I"}))), Opt(Grp(3, Cls({"S"}))), Opt(Grp(4, Cls({"A", "O"}))), Grp(5,
        Alt(<<Lit("HH"), Cls({"H"}), Lit("LL"), Cls({"L"})>>)), Cls({"-"}), Grp(6,
        Cat(<<Opt(Cls(Upper)), Plus(Cls(Digit)), Opt(Cls(Upper)), Opt(Cat(<<Cls({"-", "_"}),
        Plus(Cls(Digit))>>))>>)), Cls({")"})>>), 6, TRUE)

\* lines 680-690 (and 696-706, 712-722): the tag of a p2, p3 or p4 match
alarm_tag_of_match(match, description) ==
    LET meas == str_upper(group(match, description, 1))
        mod == str_upper(group(match, description, 2))
        is_sw == has_group(match, 3)
        level == str_upper(group(match, description, 5))
        number == str_upper(group(match, description, 6))
        base == IF meas \in DOMAIN ALARM_TO_TRANSMITTER THEN ALARM_TO_TRANSMITTER[meas]
                ELSE meas \o "IT"
        prefix == IF is_sw
                  THEN (IF mod # "" THEN meas \o mod \o "S" \o level ELSE meas \o "S" \o level)
                  ELSE (IF mod = "X" THEN Head(base) \o "X" \o Tail(base) ELSE base)
    IN  prefix \o "-" \o number

\* Returns the tag, "" for None.
extract_tag_from_alarm_description(description) ==
    IF ~truthy(description) \/ ~isinstance_str(description) THEN ""
    ELSE LET s == description.s
             m1 == re_match(re_p1, s)
             m2 == re_search(re_p2, s)
             m3 == re_search(re_p3, s)
             m4 == re_search(re_p4, s)
         IN  IF m1.ok
             THEN LET meas == str_upper(group(m1, s, 1))
                      number == str_replace(str_upper(group(m1, s, 2)), "_", "-")
                  IN  (IF meas \in DOMAIN ALARM_TO_TRANSMITTER
                       THEN ALARM_TO_TRANSMITTER[meas] ELSE meas \o "IT") \o "-" \o number
             ELSE IF m2.ok THEN alarm_tag_of_match(m2, s)
             ELSE IF m3.ok THEN alarm_tag_of_match(m3, s)
             ELSE IF m4.ok THEN alarm_tag_of_match(m4, s)
             ELSE ""

\* line 732: r'^([DPLTFA][DPXIA]?(?:SHH|SH|SLL|SL|AHH|AH|ALL|AL))[-_]?([A-Z]?[-_]?\d+[A-Z]?(?:[-_][A-Z0-9]+)?)\s*', re.IGNORECASE
re_alarm_tag_pattern ==
    Re(Cat(<<Bol, Grp(1, Cat(<<Cls({"D", "P", "L", "T", "F", "A"}), Opt(Cls({"D", "P", "X",
        "I", "A"})), Alt(<<Lit("SHH"), Lit("SH"), Lit("SLL"), Lit("SL"), Lit("AHH"),
        Lit("AH"), Lit("ALL"), Lit("AL")>>)>>)), Opt(Cls({"-", "_"})), Grp(2,
        Cat(<<Opt(Cls(Upper)), Opt(Cls({"-", "_"})), Plus(Cls(Digit)), Opt(Cls(Upper)),
        Opt(Cat(<<Cls({"-", "_"}), Plus(Cls(Upper \cup Digit))>>))>>)), Star(Cls(Space))>>),
        2, TRUE)

\* Returns (tag_id, remaining); tag "" is None.
extract_alarm_switch_tag(description) ==
    IF ~truthy(description) \/ ~isinstance_str(description)
    THEN [tag |-> "", rest |-> description]
    ELSE LET s == description.s
             match == re_match(re_alarm_tag_pattern, s)
         IN  IF match.ok
             THEN LET prefix == str_upper(group(match, s, 1))
                      number == str_replace(str_upper(group(match, s, 2)), "_", "-")
                  IN  [tag |-> str_replace(prefix \o "-" \o number, "--", "-"),
                       rest |-> PyStr(str_strip(SubSeq(s, match.en, Len(s))))]
             ELSE [tag |-> "", rest |-> description]

\* lines 750: the two patterns tried for each transmitter prefix
re_transmitter(prefix) ==
    << Re(Cat(<<Wb, Grp(1, Lit(prefix)), Opt(Cls({"-", "_"} \cup Space)),
                Grp(2, Cat(<<Plus(Cls(Digit)), Opt(Cls(Upper))>>)), Wb>>), 2, FALSE),
       Re(Cat(<<Wb, Grp(1, Lit(prefix)),
                Grp(2, Cat(<<Plus(Cls(Digit)), Opt(Cls(Upper))>>)), Wb>>), 2, FALSE) >>

re_transmitter_all == [i \in 1..Len(TRANSMITTER_PREFIXES) |-> re_transmitter(TRANSMITTER_PREFIXES[i])]

\* the first pattern, in the order of the two loops, that matches
extract_transmitter_id_from(desc_upper) ==
    LET n == Len(re_transmitter_all)
        hits == {k \in 1..(2 * n) :
                    re_search(re_transmitter_all[(k + 1) \div 2][2 - (k % 2)], desc_upper).ok}
    IN  IF hits = {} THEN ""
        ELSE LET k == CHOOSE h \in hits : \A j \in hits : h <= j
                 match == re_search(re_transmitter_all[(k + 1) \div 2][2 - (k % 2)],
                                    desc_upper)
             IN  group(match, desc_upper, 1) \o "-" \o group(match, desc_upper, 2)

\* Returns the tag, "" for None.
extract_transmitter_id(description) ==
    IF ~truthy(description) \/ ~isinstance_str(description) THEN ""
    ELSE extract_transmitter_id_from(str_upper(description.s))

\* line 497: r'^([A-Z]{2,6}[-_]\d+[A-Z]?)'
re_extract_tag_id ==
    Re(Cat(<<Bol, Grp(1, Cat(<<Rep(Cls(Upper), 2, 6), Cls({"-", "_"}), Plus(Cls(Digit)),
        Opt(Cls(Upper))>>))>>), 1, FALSE)
\* line 501: r'^[-_:\s]+'
re_extract_tag_id_sep ==
    Re(Cat(<<Bol, Plus(Cls(Space \cup {"-", "_", ":"}))>>), 0, FALSE)

\* Returns (tag_id, equipment); tag "" is None.
extract_tag_id_from_description(description) ==
    IF ~truthy(description) \/ ~isinstance_str(description)
    THEN [tag |-> "", equipment |-> description]
    ELSE LET s == description.s
             match == re_match(re_extract_tag_id, s)
         IN  IF match.ok
             THEN LET tag_id == group(match, s, 1)
                      equipment == str_strip(SubSeq(s, Len(tag_id) + 1, Len(s)))
                      lead == re_match(re_extract_tag_id_sep, equipment)
                  IN  [tag |-> tag_id,
                       equipment |-> PyStr(IF lead.ok
                                           THEN SubSeq(equipment, lead.en, Len(equipment))
                                           ELSE equipment)]
             ELSE [tag |-> "", equipment |-> description]

-----------------------------------------------------------------------------
(* Severity detection (step3_convert.py, from alarm_severity.py).          *)

\* the keys of INSTRUMENT_INITIATING_VARIABLES
INSTRUMENT_INITIATING_VARIABLES ==
    <<"P", "F", "V", "T", "L", "DP", "PD", "A">>

\* lines 335-362: the searches of detect_severity_code in the order they are
\* tried, each with the code it returns and the text it is applied to;
\* all_pat (line 334) is "DP|PD|P|F|V|T|L|A"
severity_rules ==
    <<
       << Re(Cat(<<Wb, Alt(<<Lit("DP"), Lit("PD"), Cls({"P"}), Cls({"F"}), Cls({"V"}),
          Cls({"T"}), Cls({"L"}), Cls({"A"})>>), Cls({"-", "_"}), Opt(Cls({"A"})),
          Lit("HH")>>), 0, FALSE), "HH", "t_raw" >>,
       << Re(Cat(<<Wb, Alt(<<Lit("DP"), Lit("PD"), Cls({"P"}), Cls({"F"}), Cls({"V"}),
          Cls({"T"}), Cls({"L"}), Cls({"A"})>>), Cls({"-", "_"}), Opt(Cls({"A"})),
          Lit("LL")>>), 0, FALSE), "LL", "t_raw" >>,
       << Re(Cat(<<Wb, Alt(<<Lit("DP"), Lit("PD"), Cls({"P"}), Cls({"F"}), Cls({"V"}),
          Cls({"T"}), Cls({"L"}), Cls({"A"})>>), Cls({"-", "_"}), Opt(Cls({"A"})),
          Cls({"H"}), NotAhead(Cls({"H"}))>>), 0, FALSE), "H", "t_raw" >>,
       << Re(Cat(<<Wb, Alt(<<Lit("DP"), Lit("PD"), Cls({"P"}), Cls({"F"}), Cls({"V"}),
          Cls({"T"}), Cls({"L"}), Cls({"A"})>>), Cls({"-", "_"}), Opt(Cls({"A"})),
          Cls({"L"}), NotAhead(Cls({"L"}))>>), 0, FALSE), "L", "t_raw" >>,
       << Re(Cat(<<Wb, Lit("PAHH")>>), 0, FALSE), "HH", "t_raw" >>,
       << Re(Cat(<<Wb, Lit("PALL")>>), 0, FALSE), "LL", "t_raw" >>,
       << Re(Cat(<<Wb, Lit("PAH"), NotAhead(Cls({"H"}))>>), 0, FALSE), "H", "t_raw" >>,
       << Re(Cat(<<Wb, Lit("PAL"), NotAhead(Cls({"L"}))>>), 0, FALSE), "L", "t_raw" >>,
       << Re(Cat(<<Wb, Lit("FAHH")>>), 0, FALSE), "HH", "t_raw" >>,
       << Re(Cat(<<Wb, Lit("FALL")>>), 0, FALSE), "LL", "t_raw" >>,
       << Re(Cat(<<Wb, Lit("FAH"), NotAhead(Cls({"H"}))>>), 0, FALSE), "H", "t_raw" >>,
       << Re(Cat(<<Wb, Lit("FAL"), NotAhead(Cls({"L"}))>>), 0, FALSE), "L", "t_raw" >>,
       << Re(Cat(<<Wb, Lit("VAHH")>>), 0, FALSE), "HH", "t_raw" >>,
       << Re(Cat(<<Wb, Lit("VALL")>>), 0, FALSE), "LL", "t_raw" >>,
       << Re(Cat(<<Wb, Lit("VAH"), NotAhead(Cls({"H"}))>>), 0, FALSE), "H", "t_raw" >>,
       << Re(Cat(<<Wb, Lit("VAL"), NotAhead(Cls({"L"}))>>), 0, FALSE), "L", "t_raw" >>,
       << Re(Cat(<<Wb, Lit("TAHH")>>), 0, FALSE), "HH", "t_raw" >>,
       << Re(Cat(<<Wb, Lit("TALL")>>), 0, FALSE), "LL", "t_raw" >>,
       << Re(Cat(<<Wb, Lit("TAH"), NotAhead(Cls({"H"}))>>), 0, FALSE), "H", "t_raw" >>,
       << Re(Cat(<<Wb, Lit("TAL"), NotAhead(Cls({"L"}))>>), 0, FALSE), "L", "t_raw" >>,
       << Re(Cat(<<Wb, Lit("LAHH")>>), 0, FALSE), "HH", "t_raw" >>,
       << Re(Cat(<<Wb, Lit("LALL")>>), 0, FALSE), "LL", "t_raw" >>,
       << Re(Cat(<<Wb, Lit("LAH"), NotAhead(Cls({"H"}))>>), 0, FALSE), "H", "t_raw" >>,
       << Re(Cat(<<Wb, Lit("LAL"), NotAhead(Cls({"L"}))>>), 0, FALSE), "L", "t_raw" >>,
       << Re(Cat(<<Wb, Lit("AAHH")>>), 0, FALSE), "HH", "t_raw" >>,
       << Re(Cat(<<Wb, Lit("AALL")>>), 0, FALSE), "LL", "t_raw" >>,
       << Re(Cat(<<Wb, Lit("AAH"), NotAhead(Cls({"H"}))>>), 0, FALSE), "H", "t_raw" >>,
       << Re(Cat(<<Wb, Lit("AAL"), NotAhead(Cls({"L"}))>>), 0, FALSE), "L", "t_raw" >>,
       << Re(Cat(<<Wb, Lit("HHSetpoint"), Wb>>), 0, TRUE), "HH", "t_raw" >>,
       << Re(Cat(<<Wb, Lit("LLSetpoint"), Wb>>), 0, TRUE), "LL", "t_raw" >>,
       << Re(Cat(<<Wb, Lit("HSetpoint"), Wb>>), 0, TRUE), "H", "t_raw" >>,
       << Re(Cat(<<Wb, Lit("LSetpoint"), Wb>>), 0, TRUE), "L", "t_raw" >>,
       << Re(Cat(<<Wb, Lit("ALARM"), Cls({"-", "_"}), Alt(<<Cat(<<Lit("HIGH"), Cls({"-",
          "_"}), Lit("HIGH")>>), Lit("HIHI"), Cat(<<Lit("HI"), Cls({"-", "_"}),
          Lit("HI")>>)>>)>>), 0, FALSE), "HH", "t_raw" >>,
       << Re(Cat(<<Wb, Lit("ALARM"), Cls({"-", "_"}), Alt(<<Cat(<<Lit("LOW"), Cls({"-",
          "_"}), Lit("LOW")>>), Lit("LOLO"), Cat(<<Lit("LO"), Cls({"-", "_"}),
          Lit("LO")>>)>>)>>), 0, FALSE), "LL", "t_raw" >>,
       << Re(Cat(<<Wb, Lit("ALARM"), Opt(Cls({"-", "_"})), Opt(Cls({"A"})), Lit("HH")>>), 0,
          FALSE), "HH", "t_raw" >>,
       << Re(Cat(<<Wb, Lit("ALARM"), Opt(Cls({"-", "_"})), Opt(Cls({"A"})), Lit("LL")>>), 0,
          FALSE), "LL", "t_raw" >>,
       << Re(Cat(<<Wb, Lit("ALARM"), Opt(Cls({"-", "_"})), Opt(Cls({"A"})), Cls({"H"}),
          NotAhead(Alt(<<Cls({"H"}), Lit("IGH")>>))>>), 0, FALSE), "H", "t_raw" >>,
       << Re(Cat(<<Wb, Lit("ALARM"), Opt(Cls({"-", "_"})), Opt(Cls({"A"})), Cls({"L"}),
          NotAhead(Alt(<<Cls({"L"}), Lit("OW")>>))>>), 0, FALSE), "L", "t_raw" >>,
       << Re(Grp(1, Alt(<<Cat(<<Lit("HI"), Star(Cls(Space)), Lit("HI")>>),
          Cat(<<Lit("HIGH"), Star(Cls(Space)), Lit("HIGH")>>), Lit("HIHI"), Cat(<<Lit("HH"),
          Wb>>)>>)), 1, FALSE), "HH", "t" >>,
       << Re(Grp(1, Alt(<<Cat(<<Lit("LO"), Star(Cls(Space)), Lit("LO")>>), Cat(<<Lit("LOW"),
          Star(Cls(Space)), Lit("LOW")>>), Lit("LOLO"), Cat(<<Wb, Lit("LL"), Wb>>)>>)), 1,
          FALSE), "LL", "t" >>,
       << Re(Cat(<<Wb, Grp(1, Alt(<<Lit("HI"), Lit("HIGH")>>)),
          NotAhead(Cat(<<Star(Cls(Space)), Alt(<<Lit("HI"), Lit("HIGH")>>)>>)), Wb>>), 1,
          FALSE), "H", "t" >>,
       << Re(Cat(<<Wb, Grp(1, Alt(<<Lit("LO"), Lit("LOW")>>)),
          NotAhead(Cat(<<Star(Cls(Space)), Alt(<<Lit("LO"), Lit("LOW")>>)>>)), Wb>>), 1,
          FALSE), "L", "t" >>
    >>

\* the first rule of a table that matches, 0 if none
first_rule(rules, t_raw, t) ==
    LET hits == {k \in 1..Len(rules) :
                    re_search(rules[k][1], IF rules[k][3] = "t" THEN t ELSE t_raw).ok}
    IN  IF hits = {} THEN 0 ELSE CHOOSE k \in hits : \A j \in hits : k <= j

\* re.sub of one character class by a string
RECURSIVE re_sub_cls(_, _, _)
re_sub_cls(S, repl, s) ==
    IF s = "" THEN ""
    ELSE IF Len(s) = 1 THEN (IF s \in S THEN repl ELSE s)
    ELSE re_sub_cls(S, repl, SubSeq(s, 1, Len(s) \div 2))
         \o re_sub_cls(S, repl, SubSeq(s, Len(s) \div 2 + 1, Len(s)))

\* Returns the code, "" for None.
detect_severity_code(txt) ==
    IF txt = "" THEN ""
    ELSE LET t_raw == str_upper(txt)
             t == re_sub_cls({"_", "-", ".", "/"}, " ", t_raw)
             k == first_rule(severity_rules, t_raw, t)
         IN  IF k = 0 THEN "" ELSE severity_rules[k][2]

\* line 760: r'([PLTFAVD])([XI]?)(S)?A?(HH|H|LL|L)-[A-Z]?\d+[A-Z]?(?:[-_]\d+)?\s*$', re.IGNORECASE
re_alarm_level_tag ==
    Re(Cat(<<Grp(1, Cls({"P", "L", "T", "F", "A", "V", "D"})), Grp(2, Opt(Cls({"X", "I"}))),
        Opt(Grp(3, Cls({"S"}))), Opt(Cls({"A"})), Grp(4, Alt(<<Lit("HH"), Cls({"H"}),
        Lit("LL"), Cls({"L"})>>)), Cls({"-"}), Opt(Cls(Upper)), Plus(Cls(Digit)),
        Opt(Cls(Upper)), Opt(Cat(<<Cls({"-", "_"}), Plus(Cls(Digit))>>)), Star(Cls(Space)),
        Eol>>), 4, TRUE)

\* pattern.search(description) at line 761 raises TypeError for a number
extract_alarm_level_from_description_raises(description) ==
    truthy(description) /\ ~isinstance_str(description)

\* Returns (level, is_switch); level "" is None.
extract_alarm_level_from_description(description) ==
    IF ~truthy(description) THEN [level |-> "", is_sw |-> FALSE]
    ELSE LET match == re_search(re_alarm_level_tag, description.s)
         IN  IF match.ok
             THEN [level |-> str_upper(group(match, description.s, 4)),
                   is_sw |-> has_group(match, 3)]
             ELSE [level |-> "", is_sw |-> FALSE]

\* line 771: r'\bSW\b|\bSWITCH\b|\bSWTICH\b'
re_switch_keyword ==
    Re(Alt(<<Cat(<<Wb, Lit("SW"), Wb>>), Cat(<<Wb, Lit("SWITCH"), Wb>>), Cat(<<Wb,
        Lit("SWTICH"), Wb>>)>>), 0, FALSE)
\* line 774: r'\bHIGH\b'
re_high_keyword ==
    Re(Cat(<<Wb, Lit("HIGH"), Wb>>), 0, FALSE)
\* line 775: r'\bLOW\b'
re_low_keyword ==
    Re(Cat(<<Wb, Lit("LOW"), Wb>>), 0, FALSE)

extract_alarm_level_from_keywords(description) ==
    IF ~truthy(description) THEN [level |-> "", is_sw |-> FALSE]
    ELSE LET desc_upper == str_upper(py_str(description))
             is_sw == re_search(re_switch_keyword, desc_upper).ok
         IN  IF contains(desc_upper, "HIGH HIGH") \/ contains(desc_upper, "HI HI")
             THEN [level |-> "HH", is_sw |-> is_sw]
             ELSE IF contains(desc_upper, "LOW LOW") \/ contains(desc_upper, "LO LO")
             THEN [level |-> "LL", is_sw |-> is_sw]
             ELSE IF re_search(re_high_keyword, desc_upper).ok
                     /\ ~contains(desc_upper, "HIGH HIGH")
             THEN [level |-> "H", is_sw |-> is_sw]
             ELSE IF re_search(re_low_keyword, desc_upper).ok
                     /\ ~contains(desc_upper, "LOW LOW")
             THEN [level |-> "L", is_sw |-> is_sw]
             ELSE [level |-> "", is_sw |-> is_sw]

-----------------------------------------------------------------------------
(* Detectors on the address and the description.                           *)

\* line 557: r'DAY\s*[_$-]?\s*0|DAY0', re.IGNORECASE
day0_pattern ==
    Re(Alt(<<Cat(<<Lit("DAY"), Star(Cls(Space)), Opt(Cls({"_", "$", "-"})),
        Star(Cls(Space)), Cls({"0"})>>), Lit("DAY0")>>), 0, TRUE)
\* line 558: r'DAY\s*[_$-]?\s*1|DAY1', re.IGNORECASE
day1_pattern ==
    Re(Alt(<<Cat(<<Lit("DAY"), Star(Cls(Space)), Opt(Cls({"_", "$", "-"})),
        Star(Cls(Space)), Cls({"1"})>>), Lit("DAY1")>>), 0, TRUE)

\* Returns the day-volume name, "" for None.
detect_day_volume(address, description) ==
    LET address_upper == str_upper(address)
        desc_str == IF truthy(description) THEN py_str(description) ELSE ""
        desc_upper == str_upper(desc_str)
    IN  IF contains(desc_upper, "YESTERDAY") THEN "Day 1 Volume"
        ELSE IF contains(desc_upper, "TODAY") /\ contains(desc_upper, "VOLUME")
        THEN "Day 0 Volume"
        ELSE IF contains(address_upper, "FLOW")
                /\ (contains(address_upper, "DAY0") \/ contains(address_upper, ".DAY0"))
        THEN "Day 0 Volume"
        ELSE IF contains(address_upper, "FLOW")
                /\ (contains(address_upper, "DAY1") \/ contains(address_upper, ".DAY1"))
        THEN "Day 1 Volume"
        ELSE IF re_search(day0_pattern, desc_str).ok THEN "Day 0 Volume"
        ELSE IF re_search(day1_pattern, desc_str).ok THEN "Day 1 Volume"
        ELSE ""

\* line 610: r'\bHOA\b'
re_hoa_word ==
    Re(Cat(<<Wb, Lit("HOA"), Wb>>), 0, FALSE)
\* line 612: r'HAND[/\-]OFF[/\-]AUTO'
re_hand_off_auto ==
    Re(Cat(<<Lit("HAND"), Cls({"/", "-"}), Lit("OFF"), Cls({"/", "-"}), Lit("AUTO")>>), 0,
        FALSE)
\* line 613: r'\bH[/\-]O[/\-]A\b'
re_h_o_a ==
    Re(Cat(<<Wb, Cls({"H"}), Cls({"/", "-"}), Cls({"O"}), Cls({"/", "-"}), Cls({"A"}),
        Wb>>), 0, FALSE)

detect_hoa_pattern(description) ==
    IF ~truthy(description) THEN FALSE
    ELSE LET desc_upper == str_upper(py_str(description))
         IN  \/ re_search(re_hoa_word, desc_upper).ok
             \/ /\ contains(desc_upper, "HAND") /\ contains(desc_upper, "OFF")
                /\ contains(desc_upper, "AUTO")
             \/ re_search(re_hand_off_auto, desc_upper).ok
             \/ re_search(re_h_o_a, desc_upper).ok

detect_permissive_pattern(description) ==
    truthy(description) /\ contains(str_upper(py_str(description)), "PERMISSIVE")

\* lines 629-639: the patterns of detect_setpoint_type in the order sorted()
\* leaves them, longest pattern text first
setpoint_patterns ==
    <<
       << Re(Cat(<<Lit("HIGH"), Star(Cls(Space)), Lit("HIGH"), Star(Cls(Space)),
          Opt(Cat(<<Lit("ALARM"), Star(Cls(Space))>>)), Lit("SET"), Star(Cls(Space)),
          Lit("POINT")>>), 0, FALSE), "High High Alarm Setpoint", "t" >>,
       << Re(Cat(<<Opt(Cat(<<Lit("ALARM"), Star(Cls(Space))>>)), Lit("HIGH"),
          Star(Cls(Space)), Lit("HIGH"), Star(Cls(Space)), Lit("SET"), Star(Cls(Space)),
          Lit("POINT")>>), 0, FALSE), "High High Alarm Setpoint", "t" >>,
       << Re(Cat(<<Lit("LOW"), Star(Cls(Space)), Lit("LOW"), Star(Cls(Space)),
          Opt(Cat(<<Lit("ALARM"), Star(Cls(Space))>>)), Lit("SET"), Star(Cls(Space)),
          Lit("POINT")>>), 0, FALSE), "Low Low Alarm Setpoint", "t" >>,
       << Re(Cat(<<Opt(Cat(<<Lit("ALARM"), Star(Cls(Space))>>)), Lit("LOW"),
          Star(Cls(Space)), Lit("LOW"), Star(Cls(Space)), Lit("SET"), Star(Cls(Space)),
          Lit("POINT")>>), 0, FALSE), "Low Low Alarm Setpoint", "t" >>,
       << Re(Cat(<<Lit("HIGH"), Star(Cls(Space)), Opt(Cat(<<Lit("ALARM"),
          Star(Cls(Space))>>)), Lit("SET"), Star(Cls(Space)), Lit("POINT")>>), 0, FALSE),
          "High Alarm Setpoint", "t" >>,
       << Re(Cat(<<Opt(Cat(<<Lit("ALARM"), Star(Cls(Space))>>)), Lit("HIGH"),
          Star(Cls(Space)), Lit("SET"), Star(Cls(Space)), Lit("POINT")>>), 0, FALSE),
          "High Alarm Setpoint", "t" >>,
       << Re(Cat(<<Lit("LOW"), Star(Cls(Space)), Opt(Cat(<<Lit("ALARM"),
          Star(Cls(Space))>>)), Lit("SET"), Star(Cls(Space)), Lit("POINT")>>), 0, FALSE),
          "Low Alarm Setpoint", "t" >>,
       << Re(Cat(<<Opt(Cat(<<Lit("ALARM"), Star(Cls(Space))>>)), Lit("LOW"),
          Star(Cls(Space)), Lit("SET"), Star(Cls(Space)), Lit("POINT")>>), 0, FALSE),
          "Low Alarm Setpoint", "t" >>
    >>

\* Returns the setpoint name, "" for None.
detect_setpoint_type(description) ==
    IF ~truthy(description) THEN ""
    ELSE LET desc_upper == str_upper(py_str(description))
             k == first_rule(setpoint_patterns, desc_upper, desc_upper)
         IN  IF ~contains(desc_upper, "SETPOINT") /\ ~contains(desc_upper, "SET POINT")
             THEN ""
             ELSE IF k = 0 THEN "Setpoint" ELSE setpoint_patterns[k][2]

\* line 648: r'^ALARM\[\d+\]', re.IGNORECASE
re_is_alarm_address ==
    Re(Cat(<<Bol, Lit("ALARM["), Plus(Cls(Digit)), Cls({"]"})>>), 0, TRUE)

is_alarm_address(address) ==
    address # "" /\ re_match(re_is_alarm_address, address).ok

\* line 654: r'^WRITEFLOAT\[\d+\]', re.IGNORECASE
re_is_writefloat_address ==
    Re(Cat(<<Bol, Lit("WRITEFLOAT["), Plus(Cls(Digit)), Cls({"]"})>>), 0, TRUE)

is_writefloat_address(address) ==
    address # "" /\ re_match(re_is_writefloat_address, address).ok

\* src/converters/tag_classifier.py lines 383-409: the other version of
\* detect_day_volume, in which TODAY alone is enough
tc_detect_day_volume(address, description) ==
    LET address_upper == str_upper(address)
        desc_str == IF truthy(description) THEN py_str(description) ELSE ""
        desc_upper == str_upper(desc_str)
    IN  IF contains(desc_upper, "YESTERDAY") THEN "Day 1 Volume"
        ELSE IF contains(desc_upper, "TODAY") THEN "Day 0 Volume"
        ELSE IF contains(address_upper, "FLOW")
                /\ (contains(address_upper, "DAY0") \/ contains(address_upper, ".DAY0"))
        THEN "Day 0 Volume"
        ELSE IF contains(address_upper, "FLOW")
                /\ (contains(address_upper, "DAY1") \/ contains(address_upper, ".DAY1"))
        THEN "Day 1 Volume"
        ELSE IF re_search(day0_pattern, desc_str).ok THEN "Day 0 Volume"
        ELSE IF re_search(day1_pattern, desc_str).ok THEN "Day 1 Volume"
        ELSE ""

-----------------------------------------------------------------------------
(* Equipment classification (step3_convert.py, from equipment_classifier.py). *)

RUN_STATUS_TRIGGERS ==
    <<"Run Status", "RUN_STATUS", "AUX", "Running Indication", "RUNNING", "XI",
        "MOTOR_RUNNING">>
AUTO_STATUS_TRIGGERS ==
    <<"Auto Status", "AUTO_STATUS", "AUTO", "HOA", "HS">>
RUN_COMMAND_TRIGGERS ==
    <<"Run Command", "RUN_COMMAND", "Output", "Relay", "START", "XS", "XC", "CR",
        "MOTOR_RUN_BIT">>
MOTOR_EQUIPMENT_WORDS ==
    <<"PUMP", "FAN", "COMPRESSOR", "MOTOR", "BLOWER">>
\* the values of MOTOR_KEYWORD_TO_PREFIX
MOTOR_KEYWORD_TO_PREFIX == {"K", "P", "E", "B", "M"}

\* line 289: rf'(?<![A-Z]){word}S?(?![A-Z])'
re_motor_equipment_word(word) ==
    Re(Cat(<<NotBehind(Cls(Upper)), Lit(word), Opt(Cls({"S"})), NotAhead(Cls(Upper))>>),
       0, FALSE)

re_motor_equipment_words ==
    [i \in 1..Len(MOTOR_EQUIPMENT_WORDS) |-> re_motor_equipment_word(MOTOR_EQUIPMENT_WORDS[i])]

\* text.upper() at line 287 raises AttributeError for a number
has_motor_equipment_word_raises(txt) ==
    truthy(txt) /\ ~isinstance_str(txt)

has_motor_equipment_word(txt) ==
    IF ~truthy(txt) THEN FALSE
    ELSE LET text_upper == str_upper(txt.s)
         IN  \E i \in 1..Len(re_motor_equipment_words) :
                 re_search(re_motor_equipment_words[i], text_upper).ok

has_motor_trigger_word(tag_name, description) ==
    LET tag_upper == str_upper(tag_name)
        desc_upper == IF truthy(description) THEN str_upper(description.s) ELSE ""
        all_triggers == RUN_COMMAND_TRIGGERS \o RUN_STATUS_TRIGGERS \o AUTO_STATUS_TRIGGERS
    IN  \E i \in 1..Len(all_triggers) :
            LET t == str_upper(all_triggers[i])
            IN  contains(tag_upper, t) \/ contains(desc_upper, t)

\* the prefix test of is_motor_io, lines 309-312
is_motor_io_by_prefix(target_id) ==
    /\ target_id # ""
    /\ LET prefix == IF contains(target_id, "-") THEN split_first(target_id, "-")
                      ELSE split_first(target_id, "_")
       IN  str_upper(prefix) \in MOTOR_KEYWORD_TO_PREFIX

is_motor_io_raises(tag_name, description, target_id) ==
    ~is_motor_io_by_prefix(target_id) /\ has_motor_equipment_word_raises(description)

is_motor_io(tag_name, description, target_id) ==
    \/ is_motor_io_by_prefix(target_id)
    \/ has_motor_equipment_word(description) /\ has_motor_trigger_word(tag_name, description)

is_vfd_fault(tag_name, description) ==
    LET combined == str_upper(tag_name \o " " \o py_str(description))
    IN  /\ contains(combined, "VFD") \/ contains(combined, "VSD")
        /\ contains(combined, "FAULT") \/ contains(combined, "FAIL")

classify_equipment_type_raises(tag_name, description, target_id) ==
    LET is_vps == is_valve_position_switch(target_id)
        is_sw == IF is_vps THEN FALSE ELSE is_switch_tag(target_id)
    IN  \/ ~(is_sw \/ is_vps) /\ is_motor_io_raises(tag_name, description, target_id)
        \/ is_valve_tag_raises(target_id, description)

classify_equipment_type(tag_name, description, target_id) ==
    LET is_vps == is_valve_position_switch(target_id)
        is_sw == IF is_vps THEN FALSE ELSE is_switch_tag(target_id)
        is_mot == IF is_sw \/ is_vps THEN FALSE
                  ELSE is_motor_io(tag_name, description, target_id)
        is_vlv == is_valve_tag(target_id, description)
    IN  IF is_vps \/ is_vlv THEN "valve"
        ELSE IF is_sw THEN "switch"
        ELSE IF is_mot THEN "motor"
        ELSE "generic"

\* Returns (target_name, states), with is_output = False.
resolve_motor_tnd(tag_name, description) ==
    LET desc_upper == IF truthy(description) THEN str_upper(description.s) ELSE ""
        tag_upper == str_upper(tag_name)
    IN  IF is_vfd_fault(tag_name, description)
        THEN [name |-> "VFD Fault Status", states |-> "0=Ok;1=Fault"]
        ELSE IF \E i \in 1..Len(AUTO_STATUS_TRIGGERS) :
                    \/ contains(tag_upper, str_upper(AUTO_STATUS_TRIGGERS[i]))
                    \/ contains(desc_upper, str_upper(AUTO_STATUS_TRIGGERS[i]))
        THEN [name |-> "Auto Status", states |-> "0=Not in Auto;1=Auto"]
        ELSE [name |-> "Run Status", states |-> "0=Off;1=Running"]

\* line 464: r'\bOPEN\b'
re_open_word ==
    Re(Cat(<<Wb, Lit("OPEN"), Wb>>), 0, FALSE)
\* line 464: r'^[ZX]SO[-_]'
re_zso_tag ==
    Re(Cat(<<Bol, Cls({"Z", "X"}), Lit("SO"), Cls({"-", "_"})>>), 0, FALSE)
\* line 466: r'\bCLOS'
re_clos_word ==
    Re(Cat(<<Wb, Lit("CLOS")>>), 0, FALSE)
\* line 466: r'^[ZX]SC[-_]'
re_zsc_tag ==
    Re(Cat(<<Bol, Cls({"Z", "X"}), Lit("SC"), Cls({"-", "_"})>>), 0, FALSE)

\* Returns (target_name, states), with is_output = False; tag_name "" is None.
resolve_valve_tnd(tag_name, target_id, description) ==
    LET prefix == IF target_id # "" /\ contains(target_id, "-")
                  THEN str_upper(split_first(target_id, "-"))
                  ELSE str_upper(target_id)
        desc_upper == IF truthy(description) THEN str_upper(description.s) ELSE ""
        tag_upper == str_upper(tag_name)
    IN  IF prefix \in {"ZSO", "XSO"}
        THEN [name |-> "Open Switch Status", states |-> "0=Not Open;1=Open"]
        ELSE IF prefix \in {"ZSC", "XSC"}
        THEN [name |-> "Closed Switch Status", states |-> "0=Not Closed;1=Closed"]
        ELSE IF re_search(re_open_word, desc_upper).ok \/ re_match(re_zso_tag, tag_upper).ok
        THEN [name |-> "Open Switch Status", states |-> "0=Not Open;1=Open"]
        ELSE IF re_search(re_clos_word, desc_upper).ok \/ re_match(re_zsc_tag, tag_upper).ok
        THEN [name |-> "Closed Switch Status", states |-> "0=Not Closed;1=Closed"]
        ELSE [name |-> "Switch Status", states |-> ""]

\* a variant that names the flow with a name the approved list does not have
resolve_analog_input_tnd_flow_rate(target_id) ==
    IF target_id # "" /\ startswith(str_upper(target_id), "F") THEN "Flow Rate"
    ELSE "Process Value"

\* lines 471-475
resolve_analog_input_tnd(target_id) ==
    IF target_id # "" /\ startswith(str_upper(target_id), "F") THEN "Rate"
    ELSE "Process Value"

-----------------------------------------------------------------------------
(* Core classification functions.                                          *)

\* src/patterns.py, CLASSIFICATION_KEYWORDS: <<tag_type, keywords>> in dict order
CLASSIFICATION_KEYWORDS ==
    << <<"spare", <<"SPARE", "UNUSED", "RESERVED">>>>,
       <<"indication", <<"SPEED", "CURRENT", "VOLTAGE", "FREQUENCY", "Hz", "AMP", "AMPS">>>>,
       <<"control_signal", <<"CTRL", "CONTROL SIGNAL">>>>,
       <<"selection", <<"SELECTION", "SELECT", "MODE", "CHOOSE">>>>,
       <<"display", <<"DISPLAY", "TEXT", "MESSAGE", "SHOW">>>>,
       <<"vfd_fault", <<"VFD FAULT", "VSD FAULT", "VFD FAIL", "VSD FAIL">>>>,
       <<"transmitter_fail", <<"TRANSMITTER FAIL", "XMTR FAIL", "TRANSMITTER FAULT">>>>,
       <<"permissive", <<"PERMISSIVE">>>> >>

\* str.title()
RECURSIVE str_title_from(_, _)
str_title_from(s, after_letter) ==
    IF s = "" THEN ""
    ELSE LET c == Head(s)
             letter == c \in Upper \cup Lower
         IN  (IF ~letter THEN c
              ELSE IF after_letter THEN str_lower(c) ELSE str_upper(c))
             \o str_title_from(Tail(s), letter)

str_title(s) == str_title_from(s, FALSE)

identify_tag_type_from(desc_upper) ==
    LET hits == {k \in 1..Len(CLASSIFICATION_KEYWORDS) :
                    \E i \in 1..Len(CLASSIFICATION_KEYWORDS[k][2]) :
                        contains(desc_upper, CLASSIFICATION_KEYWORDS[k][2][i])}
    IN  IF hits = {} THEN "UNCLASSIFIED"
        ELSE LET k == CHOOSE h \in hits : \A j \in hits : h <= j
             IN  str_title(str_replace(CLASSIFICATION_KEYWORDS[k][1], "_", " "))

identify_tag_type(description) ==
    IF ~truthy(description) \/ ~isinstance_str(description) THEN "UNCLASSIFIED"
    ELSE identify_tag_type_from(str_upper(description.s))

\* src/patterns.py: <<pattern, description, order>> in dict order
ALARM_PATTERNS ==
    << <<"PAHH", "High High Alarm", 1>>, <<"PAH", "High Alarm", 2>>, <<"PAL", "Low Alarm",
        3>>, <<"PALL", "Low Low Alarm", 4>>, <<"PDAHH", "High High Alarm", 1>>, <<"PDAH",
        "High Alarm", 2>>, <<"PDAL", "Low Alarm", 3>>, <<"PDALL", "Low Low Alarm", 4>>,
        <<"LAHH", "High High Alarm", 1>>, <<"LAH", "High Alarm", 2>>, <<"LAL", "Low Alarm",
        3>>, <<"LALL", "Low Low Alarm", 4>>, <<"LXAHH", "High High Alarm", 1>>, <<"LXAH",
        "High Alarm", 2>>, <<"LXAL", "Low Alarm", 3>>, <<"LXALL", "Low Low Alarm", 4>>,
        <<"TAHH", "High High Alarm", 1>>, <<"TAH", "High Alarm", 2>>, <<"TAL", "Low Alarm",
        3>>, <<"TALL", "Low Low Alarm", 4>>, <<"FAHH", "High High Alarm", 1>>, <<"FAH",
        "High Alarm", 2>>, <<"FAL", "Low Alarm", 3>>, <<"FALL", "Low Low Alarm", 4>>,
        <<"VAHH", "High High Alarm", 1>>, <<"VAH", "High Alarm", 2>>, <<"VAL", "Low Alarm",
        3>>, <<"VALL", "Low Low Alarm", 4>>, <<"AAHH", "High High Alarm", 1>>, <<"AAH",
        "High Alarm", 2>>, <<"AAL", "Low Alarm", 3>>, <<"AALL", "Low Low Alarm", 4>> >>
SWITCH_PATTERNS ==
    << <<"LSHH", "Switch", 1>>, <<"LSH", "Switch", 2>>, <<"LSL", "Switch", 3>>, <<"LSLL",
        "Switch", 4>>, <<"LXSHH", "Switch", 1>>, <<"LXSH", "Switch", 2>>, <<"LXSL",
        "Switch", 3>>, <<"LXSLL", "Switch", 4>>, <<"PSHH", "Switch", 1>>, <<"PSH", "Switch",
        2>>, <<"PSL", "Switch", 3>>, <<"PSLL", "Switch", 4>>, <<"PDSHH", "Switch", 1>>,
        <<"PDSH", "Switch", 2>>, <<"PDSL", "Switch", 3>>, <<"PDSLL", "Switch", 4>>,
        <<"TSHH", "Switch", 1>>, <<"TSH", "Switch", 2>>, <<"TSL", "Switch", 3>>, <<"TSLL",
        "Switch", 4>>, <<"FSHH", "Switch", 1>>, <<"FSH", "Switch", 2>>, <<"FSL", "Switch",
        3>>, <<"FSLL", "Switch", 4>>, <<"VSHH", "Switch", 1>>, <<"VSH", "Switch", 2>>,
        <<"VSL", "Switch", 3>>, <<"VSLL", "Switch", 4>> >>
\* the keys of TRANSMITTER_PATTERNS
TRANSMITTER_PATTERNS ==
    <<"PIT", "LIT", "LXIT", "TIT", "FIT", "AT", "AIT", "DPIT", "PDIT", "VIT", "DIT">>
\* the keys of CONTROLLER_PATTERNS
CONTROLLER_PATTERNS ==
    <<"PIC", "LIC", "LXIC", "TIC", "FIC", "VIC">>

\* sorted(..., key=len, reverse=True) of a table of patterns: a stable sort
max_len(tab) == CHOOSE n \in {Len(tab[i][1]) : i \in 1..Len(tab)} :
                    \A i \in 1..Len(tab) : Len(tab[i][1]) <= n

RECURSIVE sorted_by_len(_, _)
sorted_by_len(tab, n) ==
    IF n = 0 THEN << >>
    ELSE SelectSeq(tab, LAMBDA e : Len(e[1]) = n) \o sorted_by_len(tab, n - 1)

\* a variant that leaves the two tables in the order they are written
sorted_patterns_unsorted == ALARM_PATTERNS \o SWITCH_PATTERNS

\* lines 513-516
sorted_patterns == sorted_by_len(ALARM_PATTERNS \o SWITCH_PATTERNS,
                                 max_len(ALARM_PATTERNS \o SWITCH_PATTERNS))

\* the first pattern of a table found in the description or the address, 0 if none
first_containing(names, desc_upper, tag_upper) ==
    LET hits == {k \in 1..Len(names) :
                    contains(desc_upper, names[k]) \/ contains(tag_upper, names[k])}
    IN  IF hits = {} THEN 0 ELSE CHOOSE k \in hits : \A j \in hits : k <= j

\* Returns the classification; found = FALSE is None.
classify_by_pattern(original_tag, description) ==
    LET desc_upper == IF ~truthy(description) \/ ~isinstance_str(description) THEN ""
                      ELSE str_upper(description.s)
        tag_upper == str_upper(original_tag)
        names == [i \in 1..Len(sorted_patterns) |-> sorted_patterns[i][1]]
        a == first_containing(names, desc_upper, tag_upper)
        t == first_containing(TRANSMITTER_PATTERNS, desc_upper, tag_upper)
        c == first_containing(CONTROLLER_PATTERNS, desc_upper, tag_upper)
        v == first_containing(VALVE_PATTERNS, desc_upper, tag_upper)
    IN  IF a # 0
        THEN [found |-> TRUE, pattern |-> sorted_patterns[a][1],
              description |-> sorted_patterns[a][2], order |-> sorted_patterns[a][3]]
        ELSE IF t # 0
        THEN [found |-> TRUE, pattern |-> TRANSMITTER_PATTERNS[t],
              description |-> "Process Value", order |-> 0]
        ELSE IF c # 0
        THEN [found |-> TRUE, pattern |-> CONTROLLER_PATTERNS[c],
              description |-> "Control Signal", order |-> 0]
        ELSE IF v # 0
        THEN [found |-> TRUE, pattern |-> VALVE_PATTERNS[v],
              description |-> "Control Valve", order |-> 0]
        ELSE [found |-> FALSE, pattern |-> "", description |-> "", order |-> 999]

VALID_TARGET_NAMES ==
    <<"High High Alarm", "High Alarm", "Low Alarm", "Low Low Alarm", "Alarm",
        "Process Value", "Rate", "Analog Input", "Digital Input", "Input", "Day 0 Volume",
        "Day 1 Volume", "Control Signal", "Control Output", "Analog Output",
        "Digital Output", "Output Command", "High High Alarm Setpoint",
        "High Alarm Setpoint", "Low Alarm Setpoint", "Low Low Alarm Setpoint", "Setpoint",
        "Process Value Setpoint", "Control Setpoint", "PV Min", "PV Max", "Switch",
        "High Switch", "Low Switch", "Control Valve", "Pressure Control Valve",
        "Level Control Valve", "Temperature Control Valve", "Flow Control Valve",
        "Interface Level Control Valve", "Open Switch Status", "Closed Switch Status",
        "Switch Status", "Shutoff Valve", "Run Status", "Run Command", "Auto Status",
        "VFD Fault Status", "Status", "Indication", "Running Status", "Fault Status",
        "Hand/Off/Auto Status", "Permissive Status", "High High Alarm Delay",
        "High Alarm Delay", "Low Alarm Delay", "Low Low Alarm Delay", "Alarm Delay",
        "PID Setpoint", "PID Process Variable", "PID Control Variable", "PID Output",
        "PID Manual Output", "PID Auto/Manual Mode", "Selection", "Mode",
        "Transmitter Fail", "Spare", "Display", "UNCLASSIFIED">>

validate_target_name(target_name) ==
    LET hits == {k \in 1..Len(VALID_TARGET_NAMES) :
                    str_upper(target_name) = str_upper(VALID_TARGET_NAMES[k])}
    IN  IF target_name = "" \/ hits = {} THEN "UNCLASSIFIED"
        ELSE VALID_TARGET_NAMES[CHOOSE k \in hits : \A j \in hits : k <= j]

\* line 785: r'^[ZX][SI][OC][-_]'
re_tag_valve_switch ==
    Re(Cat(<<Bol, Cls({"Z", "X"}), Cls({"S", "I"}), Cls({"O", "C"}), Cls({"-", "_"})>>), 0,
        FALSE)
\* line 789: r'^([PLTFAVD])([XI]?)S(HH|H|LL|L)?[-_]'
re_tag_switch ==
    Re(Cat(<<Bol, Grp(1, Cls({"P", "L", "T", "F", "A", "V", "D"})), Grp(2, Opt(Cls({"X",
        "I"}))), Cls({"S"}), Opt(Grp(3, Alt(<<Lit("HH"), Cls({"H"}), Lit("LL"),
        Cls({"L"})>>))), Cls({"-", "_"})>>), 3, FALSE)
\* line 790: r'^ALARM\[\d+\]', re.IGNORECASE
re_alarm_plc_address ==
    Re(Cat(<<Bol, Lit("ALARM["), Plus(Cls(Digit)), Cls({"]"})>>), 0, TRUE)
\* line 795: r'^([PLTFAVD])([XI]?)IT[-_]'
re_tag_transmitter ==
    Re(Cat(<<Bol, Grp(1, Cls({"P", "L", "T", "F", "A", "V", "D"})), Grp(2, Opt(Cls({"X",
        "I"}))), Lit("IT"), Cls({"-", "_"})>>), 2, FALSE)
\* line 799: r'^([PLTFAVD])([XI]?)A(HH|H|LL|L)[-_]'
re_tag_alarm ==
    Re(Cat(<<Bol, Grp(1, Cls({"P", "L", "T", "F", "A", "V", "D"})), Grp(2, Opt(Cls({"X",
        "I"}))), Cls({"A"}), Grp(3, Alt(<<Lit("HH"), Cls({"H"}), Lit("LL"), Cls({"L"})>>)),
        Cls({"-", "_"})>>), 3, FALSE)
\* line 805: r'^([PLTFAVD])([XI]?)IC[-_]'
re_tag_controller ==
    Re(Cat(<<Bol, Grp(1, Cls({"P", "L", "T", "F", "A", "V", "D"})), Grp(2, Opt(Cls({"X",
        "I"}))), Lit("IC"), Cls({"-", "_"})>>), 2, FALSE)
\* line 809: r'^([PLTFAVD])?[XY]V?[-_]|^[PLTF]CV[-_]'
re_tag_valve ==
    Re(Alt(<<Cat(<<Bol, Opt(Grp(1, Cls({"P", "L", "T", "F", "A", "V", "D"}))), Cls({"X",
        "Y"}), Opt(Cls({"V"})), Cls({"-", "_"})>>), Cat(<<Bol, Cls({"P", "L", "T", "F"}),
        Lit("CV"), Cls({"-", "_"})>>)>>), 1, FALSE)

\* a variant with the names of the two low levels exchanged
level_to_tnd_low_exchanged ==
    ("HH" :> "High High Alarm") @@ ("H" :> "High Alarm") @@ ("L" :> "Low Low Alarm") @@
    ("LL" :> "Low Alarm")

\* lines 802 and 821
level_to_tnd ==
    ("HH" :> "High High Alarm") @@ ("H" :> "High Alarm") @@ ("L" :> "Low Alarm") @@
    ("LL" :> "Low Low Alarm")

\* Returns (tnd, is_switch); tnd "" is None.
classify_from_tag_id(tag_id, plc_address) ==
    IF tag_id = "" THEN [tnd |-> "", is_sw |-> FALSE]
    ELSE LET tag_upper == str_upper(tag_id)
             alarm_match == re_match(re_tag_alarm, tag_upper)
         IN  IF re_match(re_tag_valve_switch, tag_upper).ok
             THEN [tnd |-> resolve_valve_tnd("", tag_id, PyStr("")).name, is_sw |-> FALSE]
             ELSE IF re_match(re_tag_switch, tag_upper).ok
             THEN IF plc_address # "" /\ re_match(re_alarm_plc_address, plc_address).ok
                  THEN [tnd |-> "Alarm", is_sw |-> TRUE]
                  ELSE [tnd |-> "Input", is_sw |-> TRUE]
             ELSE IF re_match(re_tag_transmitter, tag_upper).ok
             THEN [tnd |-> resolve_analog_input_tnd(tag_id), is_sw |-> FALSE]
             ELSE IF alarm_match.ok
             THEN LET level == str_upper(group(alarm_match, tag_upper, 3))
                  IN  [tnd |-> IF level \in DOMAIN level_to_tnd THEN level_to_tnd[level]
                               ELSE "Alarm",
                       is_sw |-> FALSE]
             ELSE IF re_match(re_tag_controller, tag_upper).ok
             THEN [tnd |-> "Control Signal", is_sw |-> FALSE]
             ELSE IF re_match(re_tag_valve, tag_upper).ok
             THEN [tnd |-> "Control Valve", is_sw |-> FALSE]
             ELSE [tnd |-> "", is_sw |-> FALSE]

get_alarm_tnd_from_level(alarm_level, has_setpoint, is_switch, plc_address) ==
    IF is_switch
    THEN IF plc_address # "" /\ re_match(re_alarm_plc_address, plc_address).ok
         THEN "Alarm" ELSE "Input"
    ELSE LET base == IF alarm_level \in DOMAIN level_to_tnd THEN level_to_tnd[alarm_level]
                     ELSE "High Alarm"
         IN  IF has_setpoint THEN base \o " Setpoint" ELSE base

-----------------------------------------------------------------------------
(* Text processing (step3_convert.py, from description_formatter.py).      *)

\* the positions at which a pattern matches
re_starts(p, s) == {i \in 1..(Len(s) + 1) : M(p.r, s, i, NoGroups(p.ng), p.ic) # << >>}

\* the end of the match that starts at position i
re_end_at(p, s, i) == M(p.r, s, i, NoGroups(p.ng), p.ic)[1][1]

\* re.sub(p, repl, s) for a replacement without group references: the matches
\* are taken from left to right, each after the end of the one before
RECURSIVE re_sub_from(_, _, _, _, _)
re_sub_from(p, repl, s, starts, pos) ==
    LET later == {i \in starts : i >= pos}
        st == CHOOSE i \in later : \A j \in later : i <= j
        en == re_end_at(p, s, st)
    IN  IF later = {} THEN SubSeq(s, pos, Len(s))
        ELSE IF en > st
        THEN SubSeq(s, pos, st - 1) \o repl \o re_sub_from(p, repl, s, starts, en)
        ELSE IF st > Len(s) THEN SubSeq(s, pos, Len(s)) \o repl
        ELSE SubSeq(s, pos, st) \o repl \o re_sub_from(p, repl, s, starts, st + 1)

re_sub(p, repl, s) ==
    IF re_starts(p, s) = {} THEN s ELSE re_sub_from(p, repl, s, re_starts(p, s), 1)

\* rf'\b{re.escape(phrase)}\b', re.IGNORECASE
re_phrase(phrase) == Re(Cat(<<Wb, Lit(phrase), Wb>>), 0, TRUE)

\* the patterns of a list of phrases removed one after the other
RECURSIVE remove_phrases(_, _, _)
remove_phrases(s, phrases, k) ==
    IF k > Len(phrases) \/ s = "" THEN s
    ELSE remove_phrases(re_sub(re_phrase(phrases[k]), "", s), phrases, k + 1)

\* src/patterns.py, PRESERVE_CAPS_WORDS
PRESERVE_CAPS_WORDS ==
    {"BOP", "ESD", "HOA", "IR", "JOA", "LEL", "MPR", "PLC", "SD", "TEG", "UV", "VFD"}

\* src/patterns.py, ABBREVIATIONS: the word of each pattern r'\bWORD\b', in
\* uppercase, and its full form
ABBREVIATIONS ==
    ("DISC" :> "Discharge") @@ ("SUCT" :> "Suction") @@ ("RETURN" :> "Return") @@ ("RECYCLE"
        :> "Recycle") @@ ("INLET" :> "Inlet") @@ ("OUTLET" :> "Outlet") @@ ("LP" :>
        "Low Pressure") @@ ("HP" :> "High Pressure") @@ ("MP" :> "Medium Pressure") @@
        ("XMTR" :> "Transmitter") @@ ("XDUCER" :> "Transducer") @@ ("INDIC" :> "Indication")
        @@ ("CTRL" :> "Control") @@ ("SIG" :> "Signal") @@ ("SEP" :> "Separator") @@
        ("SEPERATOR" :> "Separator") @@ ("VESS" :> "Vessel") @@ ("TNK" :> "Tank") @@ ("PMP"
        :> "Pump") @@ ("PMPS" :> "Pumps") @@ ("VLV" :> "Valve") @@ ("VLVS" :> "Valves") @@
        ("WTR" :> "Water") @@ ("WW" :> "Waste Water") @@ ("INTERF" :> "Interface") @@
        ("OVERALL" :> "Overall") @@ ("MANU" :> "Manual") @@ ("LVL" :> "Level") @@ ("TEMP" :>
        "Temperature") @@ ("PRESS" :> "Pressure") @@ ("FLOW" :> "Flow") @@ ("NORM" :>
        "Normal") @@ ("EMERG" :> "Emergency") @@ ("STDBY" :> "Standby") @@ ("ALM" :>
        "Alarm") @@ ("SHUT" :> "Shutdown") @@ ("OPER" :> "Operation") @@ ("COMMON" :>
        "Common") @@ ("PRI" :> "Primary") @@ ("SEC" :> "Secondary") @@ ("AUX" :>
        "Auxiliary") @@ ("COMP" :> "Compressor")

\* src/patterns.py, PRESERVED_ACRONYMS, each under its uppercase form
PRESERVED_ACRONYMS ==
    ("PIT" :> "PIT") @@ ("LIT" :> "LIT") @@ ("TIT" :> "TIT") @@ ("FIT" :> "FIT") @@ ("LXIT"
        :> "LXIT") @@ ("VIT" :> "VIT") @@ ("AIT" :> "AIT") @@ ("DPIT" :> "DPIT") @@ ("PDIT"
        :> "PDIT") @@ ("PIC" :> "PIC") @@ ("LIC" :> "LIC") @@ ("TIC" :> "TIC") @@ ("FIC" :>
        "FIC") @@ ("LXIC" :> "LXIC") @@ ("PY" :> "PY") @@ ("LY" :> "LY") @@ ("TY" :> "TY")
        @@ ("FY" :> "FY") @@ ("LXY" :> "LXY") @@ ("PCV" :> "PCV") @@ ("LCV" :> "LCV") @@
        ("TCV" :> "TCV") @@ ("FCV" :> "FCV") @@ ("IO" :> "IO") @@ ("ID" :> "ID") @@ ("PLC"
        :> "PLC") @@ ("VFD" :> "VFD") @@ ("PID" :> "PID") @@ ("VSD" :> "VSD") @@ ("HMI" :>
        "HMI") @@ ("SCADA" :> "SCADA") @@ ("RTU" :> "RTU") @@ ("AI" :> "AI") @@ ("AO" :>
        "AO") @@ ("DI" :> "DI") @@ ("DO" :> "DO") @@ ("API" :> "API") @@ ("ANSI" :> "ANSI")
        @@ ("ISA" :> "ISA") @@ ("HZ" :> "Hz") @@ ("KW" :> "kW") @@ ("MW" :> "MW") @@ ("GW"
        :> "GW") @@ ("PSI" :> "PSI") @@ ("PSIG" :> "PSIG") @@ ("PSIA" :> "PSIA") @@ ("BARG"
        :> "BARG") @@ ("BARA" :> "BARA") @@ ("BBL" :> "BBL") @@ ("BBLS" :> "BBLS") @@ ("MCF"
        :> "MCF") @@ ("MCFD" :> "MCFD") @@ ("MMCFD" :> "MMCFD") @@ ("MSCF" :> "MSCF") @@
        ("MSCFD" :> "MSCFD") @@ ("GPM" :> "GPM") @@ ("BPD" :> "BPD") @@ ("ACFM" :> "ACFM")
        @@ ("AC" :> "AC") @@ ("DC" :> "DC") @@ ("ESD" :> "ESD") @@ ("BOP" :> "BOP") @@ ("IR"
        :> "IR") @@ ("UV" :> "UV") @@ ("LEL" :> "LEL") @@ ("MPR" :> "MPR") @@ ("HOA" :>
        "HOA") @@ ("TEG" :> "TEG")

\* line 73: r'^(1|2|3|4|5)(ST|ND|RD|TH)$', re.IGNORECASE
re_ordinal ==
    Re(Cat(<<Bol, Grp(1, Alt(<<Cls({"1"}), Cls({"2"}), Cls({"3"}), Cls({"4"}),
        Cls({"5"})>>)), Grp(2, Alt(<<Lit("ST"), Lit("ND"), Lit("RD"), Lit("TH")>>)), Eol>>),
        2, TRUE)

\* str.split(): the words between runs of blanks
RECURSIVE split_ws(_)
split_ws(s) ==
    LET t == str_lstrip(s)
        k == str_find(t, " ")
    IN  IF t = "" THEN << >>
        ELSE IF k = 0 THEN <<t>>
        ELSE <<SubSeq(t, 1, k - 1)>> \o split_ws(SubSeq(t, k + 1, Len(t)))

\* str.split(sep)
RECURSIVE str_split(_, _)
str_split(s, sep) ==
    LET k == str_find(s, sep)
    IN  IF k = 0 THEN <<s>>
        ELSE <<SubSeq(s, 1, k - 1)>> \o str_split(SubSeq(s, k + Len(sep), Len(s)), sep)

\* sep.join(parts)
RECURSIVE str_join(_, _)
str_join(sep, parts) ==
    IF parts = << >> THEN ""
    ELSE IF Len(parts) = 1 THEN parts[1]
    ELSE parts[1] \o sep \o str_join(sep, Tail(parts))

\* str.strip(chars)
RECURSIVE str_strip_chars(_, _)
str_strip_chars(s, chars) ==
    IF s # "" /\ Head(s) \in chars THEN str_strip_chars(Tail(s), chars)
    ELSE IF s # "" /\ ch(s, Len(s)) \in chars
    THEN str_strip_chars(SubSeq(s, 1, Len(s) - 1), chars)
    ELSE s

\* lines 75-91
smart_cap(word) ==
    LET word_stripped == str_upper(str_strip_chars(word, CharSet("()[]{}.,;:!?")))
        m == re_match(re_ordinal, word)
        alphas == {i \in 1..Len(word) : ch(word, i) \in Upper \cup Lower}
        letter_start == CHOOSE i \in alphas : \A j \in alphas : i <= j
    IN  IF word_stripped \in PRESERVE_CAPS_WORDS THEN str_upper(word)
        ELSE IF m.ok THEN group(m, word, 1) \o str_lower(group(m, word, 2))
        ELSE IF \E i \in 1..Len(word) : ch(word, i) \in Digit THEN word
        ELSE IF alphas = {} THEN word
        ELSE SubSeq(word, 1, letter_start - 1) \o str_upper(ch(word, letter_start))
             \o str_lower(SubSeq(word, letter_start + 1, Len(word)))

\* line 94: '-'.join(smart_cap(part) for part in token.split('-'))
cap_token(token) ==
    LET parts == str_split(token, "-")
    IN  str_join("-", [k \in 1..Len(parts) |-> smart_cap(parts[k])])

\* lines 68-96, for a str
to_proper_case(s) ==
    LET tokens == split_ws(s)
    IN  str_join(" ", [k \in 1..Len(tokens) |-> cap_token(tokens[k])])

\* the length of the run of word characters, or of other characters, that
\* starts a text
run_len(s) ==
    LET breaks == {i \in 2..Len(s) : (ch(s, i) \in Word) # (ch(s, 1) \in Word)}
    IN  IF breaks = {} THEN Len(s) ELSE (CHOOSE i \in breaks : \A j \in breaks : i <= j) - 1

\* re.sub(r'\bWORD\b', table[WORD], s, flags=re.IGNORECASE) for each WORD of
\* a table, in turn.  The words of the tables are letters only and no full
\* form holds a word that the table turns into another one, so the
\* substitutions amount to one pass over the words of the text.
RECURSIVE sub_words(_, _)
sub_words(s, table) ==
    IF s = "" THEN ""
    ELSE (IF str_upper(SubSeq(s, 1, run_len(s))) \in DOMAIN table
          THEN table[str_upper(SubSeq(s, 1, run_len(s)))]
          ELSE SubSeq(s, 1, run_len(s)))
         \o sub_words(SubSeq(s, run_len(s) + 1, Len(s)), table)

\* lines 99-108, for a str; EXPAND_ABBREVIATIONS is True (src/config.py line 68)
expand_abbreviations(s) == sub_words(s, ABBREVIATIONS)

\* lines 111-123, for a str; APPLY_CAPITALIZATION and PRESERVE_ACRONYMS are
\* True (src/config.py lines 69-70)
capitalize_proper(s) ==
    IF s = "" THEN s
    ELSE sub_words(to_proper_case(expand_abbreviations(s)), PRESERVED_ACRONYMS)

\* line 130: r'\s*\(\s*-?\d+(?:\.\d+)?\s*[-]\s*-?\d+(?:\.\d+)?\s*[A-Za-z%]*\s*\)'
re_ssr_range ==
    Re(Cat(<<Star(Cls(Space)), Cls({"("}), Star(Cls(Space)), Opt(Cls({"-"})),
        Plus(Cls(Digit)), Opt(Cat(<<Cls({"."}), Plus(Cls(Digit))>>)), Star(Cls(Space)),
        Cls({"-"}), Star(Cls(Space)), Opt(Cls({"-"})), Plus(Cls(Digit)),
        Opt(Cat(<<Cls({"."}), Plus(Cls(Digit))>>)), Star(Cls(Space)), Star(Cls(Upper \cup
        Lower \cup {"%"})), Star(Cls(Space)), Cls({")"})>>), 0, FALSE)
\* line 131: r'\s*\(\s*(?:psig|ma|gpm|bpd|ips|degf|psid|%)\s*\)', re.IGNORECASE
re_ssr_unit_paren ==
    Re(Cat(<<Star(Cls(Space)), Cls({"("}), Star(Cls(Space)), Alt(<<Lit("psig"), Lit("ma"),
        Lit("gpm"), Lit("bpd"), Lit("ips"), Lit("degf"), Lit("psid"), Cls({"%"})>>),
        Star(Cls(Space)), Cls({")"})>>), 0, TRUE)
\* line 132: r'\s*-?\d+(?:\.\d+)?\s+(?:to|TO|To)\s+-?\d+(?:\.\d+)?(?:.* )?$', re.IGNORECASE
re_ssr_to ==
    Re(Cat(<<Star(Cls(Space)), Opt(Cls({"-"})), Plus(Cls(Digit)), Opt(Cat(<<Cls({"."}),
        Plus(Cls(Digit))>>)), Plus(Cls(Space)), Alt(<<Lit("to"), Lit("TO"), Lit("To")>>),
        Plus(Cls(Space)), Opt(Cls({"-"})), Plus(Cls(Digit)), Opt(Cat(<<Cls({"."}),
        Plus(Cls(Digit))>>)), Opt(Star(Cls(AnyChar))), Eol>>), 0, TRUE)
\* line 133: r'\bdegrees(?:\s+celsius)?\b', re.IGNORECASE
re_ssr_degrees ==
    Re(Cat(<<Wb, Lit("degrees"), Opt(Cat(<<Plus(Cls(Space)), Lit("celsius")>>)), Wb>>), 0,
        TRUE)
\* line 134: r'\b(?:psig|ma|gpm|bpd|ips|degf|psid)\b', re.IGNORECASE
re_ssr_unit ==
    Re(Cat(<<Wb, Alt(<<Lit("psig"), Lit("ma"), Lit("gpm"), Lit("bpd"), Lit("ips"),
        Lit("degf"), Lit("psid")>>), Wb>>), 0, TRUE)
\* line 135: r'\s*\bTransmitter\b', re.IGNORECASE
re_ssr_transmitter ==
    Re(Cat(<<Star(Cls(Space)), Wb, Lit("Transmitter"), Wb>>), 0, TRUE)
\* line 136: r'\s+%(?:\s|$)'
re_ssr_percent ==
    Re(Cat(<<Plus(Cls(Space)), Cls({"%"}), Alt(<<Cls(Space), Eol>>)>>), 0, FALSE)
\* line 137: r'\(\s*\)'
re_ssr_empty_paren ==
    Re(Cat(<<Cls({"("}), Star(Cls(Space)), Cls({")"})>>), 0, FALSE)
\* line 138: r'\s{2,}'
re_ssr_spaces ==
    Re(Rep(Cls(Space), 2, -1), 0, FALSE)

\* lines 126-139, for a str
strip_scaling_range(description) ==
    IF description = "" THEN description
    ELSE str_strip(re_sub(re_ssr_spaces, " ", re_sub(re_ssr_empty_paren, "",
             re_sub(re_ssr_percent, " ", re_sub(re_ssr_transmitter, "",
             re_sub(re_ssr_unit, "", re_sub(re_ssr_degrees, "", re_sub(re_ssr_to, "",
             re_sub(re_ssr_unit_paren, "", re_sub(re_ssr_range, "", description))))))))))

\* line 148: r'^[HX][ISC][-_]\s+', re.IGNORECASE
re_smw_1 ==
    Re(Cat(<<Bol, Cls({"H", "X"}), Cls({"I", "S", "C"}), Cls({"-", "_"}),
        Plus(Cls(Space))>>), 0, TRUE)
\* line 149: r'^[HX][ISC]\s*[-_]\s+', re.IGNORECASE
re_smw_2 ==
    Re(Cat(<<Bol, Cls({"H", "X"}), Cls({"I", "S", "C"}), Star(Cls(Space)), Cls({"-", "_"}),
        Plus(Cls(Space))>>), 0, TRUE)
\* line 150: r'^[HX][ISC][-_]?[A-Z]?\d+[A-Z]?\s+', re.IGNORECASE
re_smw_3 ==
    Re(Cat(<<Bol, Cls({"H", "X"}), Cls({"I", "S", "C"}), Opt(Cls({"-", "_"})),
        Opt(Cls(Upper)), Plus(Cls(Digit)), Opt(Cls(Upper)), Plus(Cls(Space))>>), 0, TRUE)
\* line 167: r'\s+'
re_spaces ==
    Re(Plus(Cls(Space)), 0, FALSE)

\* lines 152-156
motor_phrases ==
    <<"Hand Switch In Auto", "Hand Switch In", "Hand Switch", "Status Switch",
      "Run Status Relay", "Run Status", "Auto Status", "Running Indication",
      "Run Indication", "Start Command", "Run Command", "Output Command">>

\* line 165
motor_words == <<"motor", "status", "relay", "indication", "switch", "command", "run">>

\* lines 142-167, for a str
strip_motor_status_words(description) ==
    IF description = "" THEN description
    ELSE str_strip(re_sub(re_spaces, " ",
             remove_phrases(remove_phrases(remove_phrases(
                 re_sub(re_smw_3, "", re_sub(re_smw_2, "", re_sub(re_smw_1, "",
                     str_strip(description)))),
                 motor_phrases, 1),
                 AUTO_STATUS_TRIGGERS \o RUN_STATUS_TRIGGERS \o RUN_COMMAND_TRIGGERS, 1),
                 motor_words, 1)))

\* line 175: r'^Z[ISO][OC][-_]?\d+\s*', re.IGNORECASE
re_svw_tag ==
    Re(Cat(<<Bol, Cls({"Z"}), Cls({"I", "S", "O"}), Cls({"O", "C"}), Opt(Cls({"-", "_"})),
        Plus(Cls(Digit)), Star(Cls(Space))>>), 0, TRUE)

\* lines 176-177 and 179
valve_phrases ==
    <<"Open Status Limit Switch", "Closed Status Limit Switch", "Open Status",
      "Closed Status", "Limit Switch", "Status Switch", "Status">>

\* lines 170-180, for a str
strip_valve_status_words(description) ==
    IF description = "" THEN description
    ELSE str_strip(re_sub(re_spaces, " ",
             remove_phrases(re_sub(re_svw_tag, "", str_strip(description)),
                            valve_phrases, 1)))

\* line 188: r'\s*\bALARM\b.*$', re.IGNORECASE
re_sas_alarm ==
    Re(Cat(<<Star(Cls(Space)), Wb, Lit("ALARM"), Wb, Star(Cls(AnyChar)), Eol>>), 0, TRUE)
\* line 191: r'^[TPLF]A?(?:HH?|LL?)?[-_]?[A-Z0-9]+[A-Z]?\s+', re.IGNORECASE
re_sas_tag ==
    Re(Cat(<<Bol, Cls({"T", "P", "L", "F"}), Opt(Cls({"A"})), Opt(Alt(<<Cat(<<Cls({"H"}),
        Opt(Cls({"H"}))>>), Cat(<<Cls({"L"}), Opt(Cls({"L"}))>>)>>)), Opt(Cls({"-", "_"})),
        Plus(Cls(Upper \cup Digit)), Opt(Cls(Upper)), Plus(Cls(Space))>>), 0, TRUE)
\* line 192: r'^PDA?(?:HH?|LL?)?[-_]?[A-Z0-9]+[A-Z]?\s+', re.IGNORECASE
re_sas_pd ==
    Re(Cat(<<Bol, Lit("PD"), Opt(Cls({"A"})), Opt(Alt(<<Cat(<<Cls({"H"}),
        Opt(Cls({"H"}))>>), Cat(<<Cls({"L"}), Opt(Cls({"L"}))>>)>>)), Opt(Cls({"-", "_"})),
        Plus(Cls(Upper \cup Digit)), Opt(Cls(Upper)), Plus(Cls(Space))>>), 0, TRUE)
\* line 193: r'\s*\bTransmitter\b', re.IGNORECASE
re_sas_transmitter ==
    Re(Cat(<<Star(Cls(Space)), Wb, Lit("Transmitter"), Wb>>), 0, TRUE)

\* lines 188-190: the text before the word ALARM
cut_at_alarm(cleaned) ==
    IF re_search(re_sas_alarm, cleaned).ok
    THEN SubSeq(cleaned, 1, re_search(re_sas_alarm, cleaned).st - 1)
    ELSE cleaned

\* lines 183-194, for a str
strip_alarm_suffix_from_description(description) ==
    IF description = "" THEN ""
    ELSE str_strip(re_sub(re_spaces, " ", re_sub(re_sas_transmitter, "",
             re_sub(re_sas_pd, "", re_sub(re_sas_tag, "",
                 cut_at_alarm(str_replace(str_replace(description, "$N", " "),
                                          "$n", " ")))))))

\* line 833: r'\s+Alarm\s+Set\s*Point\s*$', re.IGNORECASE
re_cad_1 ==
    Re(Cat(<<Plus(Cls(Space)), Lit("Alarm"), Plus(Cls(Space)), Lit("Set"), Star(Cls(Space)),
        Lit("Point"), Star(Cls(Space)), Eol>>), 0, TRUE)
\* line 833: r'\s+Alarm\s+Setpoint\s*$', re.IGNORECASE
re_cad_2 ==
    Re(Cat(<<Plus(Cls(Space)), Lit("Alarm"), Plus(Cls(Space)), Lit("Setpoint"),
        Star(Cls(Space)), Eol>>), 0, TRUE)
\* line 834: r'\s+Set\s*Point\s*$', re.IGNORECASE
re_cad_3 ==
    Re(Cat(<<Plus(Cls(Space)), Lit("Set"), Star(Cls(Space)), Lit("Point"), Star(Cls(Space)),
        Eol>>), 0, TRUE)
\* line 834: r'\s+Setpoint\s*$', re.IGNORECASE
re_cad_4 ==
    Re(Cat(<<Plus(Cls(Space)), Lit("Setpoint"), Star(Cls(Space)), Eol>>), 0, TRUE)
\* line 834: r'\s+Alarm\s*$', re.IGNORECASE
re_cad_5 ==
    Re(Cat(<<Plus(Cls(Space)), Lit("Alarm"), Star(Cls(Space)), Eol>>), 0, TRUE)

\* lines 828-836, for a str
clean_alarm_description(description, alarm_level, has_setpoint) ==
    IF description = "" \/ alarm_level = "" THEN description
    ELSE str_strip(re_sub(re_cad_5, "", re_sub(re_cad_4, "", re_sub(re_cad_3, "",
             re_sub(re_cad_2, "", re_sub(re_cad_1, "", description))))))

\* lines 848-851
ISA_MEASUREMENT ==
    ("P" :> "Pressure") @@ ("T" :> "Temperature") @@ ("L" :> "Level") @@
    ("F" :> "Flow") @@ ("A" :> "Analytical") @@ ("V" :> "Vibration")

\* a variant that puts the measurement word before the description
enhance_with_isa_measurement_prepend(equipment_desc, target_id) ==
    IF target_id = "" \/ equipment_desc = "" THEN equipment_desc
    ELSE LET first_letter == ch(str_upper(target_id), 1)
         IN  IF first_letter \notin DOMAIN ISA_MEASUREMENT THEN equipment_desc
             ELSE IF contains(str_upper(equipment_desc), str_upper(ISA_MEASUREMENT[first_letter]))
             THEN equipment_desc
             ELSE ISA_MEASUREMENT[first_letter] \o " " \o equipment_desc

\* lines 839-857
enhance_with_isa_measurement(equipment_desc, target_id) ==
    IF target_id = "" \/ equipment_desc = "" THEN equipment_desc
    ELSE LET prefix == IF contains(target_id, "-")
                       THEN str_upper(split_first(target_id, "-"))
                       ELSE str_upper(target_id)
             first_letter == IF prefix # "" THEN ch(prefix, 1) ELSE ""
         IN  IF first_letter \notin DOMAIN ISA_MEASUREMENT THEN equipment_desc
             ELSE IF contains(str_upper(equipment_desc), str_upper(ISA_MEASUREMENT[first_letter]))
             THEN equipment_desc
             ELSE equipment_desc \o " " \o ISA_MEASUREMENT[first_letter]

-----------------------------------------------------------------------------
(* Units (step3_convert.py).                                               *)

\* lines 596-602: the table special of normalize_unit_lowercase
special ==
    ("\"" :> "in") @@ ("\" WC" :> "in wc") @@ ("\"WC" :> "in wc") @@ ("IN WC" :> "in wc") @@
    ("IN" :> "in") @@ ("PSI" :> "psi") @@ ("PSIG" :> "psig") @@ ("PSIA" :> "psia") @@
    ("GPM" :> "gpm") @@ ("BPD" :> "bpd") @@ ("MCF" :> "mcf") @@ ("MCFD" :> "mcfd") @@
    ("MSCF" :> "mscf") @@ ("MSCFD" :> "mscfd") @@ ("ACFM" :> "acfm") @@ ("HZ" :> "hz") @@
    ("MA" :> "ma") @@ ("M/A" :> "") @@ ("%" :> "%") @@ ("BBLS" :> "bpd")

\* line 594
keep_uppercase == {"DEGF", "DEGC"}

\* a variant without the units that stay in uppercase
normalize_unit_lowercase_all_lower(unit) ==
    IF unit = "" THEN ""
    ELSE LET stripped == str_strip(unit)
         IN  IF str_upper(stripped) \in DOMAIN special THEN special[str_upper(stripped)]
             ELSE str_lower(stripped)

\* lines 590-603; the unit is a str, "" standing for '' and for None
normalize_unit_lowercase(unit) ==
    IF unit = "" THEN ""
    ELSE LET stripped == str_strip(unit)
         IN  IF str_upper(stripped) \in keep_uppercase THEN str_upper(stripped)
             ELSE IF str_upper(stripped) \in DOMAIN special THEN special[str_upper(stripped)]
             ELSE str_lower(stripped)

-----------------------------------------------------------------------------
(* Main processing function.                                               *)

\* line 924: r'([A-Z_]+)\[(\d+)\]'
re_array_match ==
    Re(Cat(<<Grp(1, Plus(Cls(Upper \cup {"_"}))), Cls({"["}), Grp(2, Plus(Cls(Digit))),
        Cls({"]"})>>), 2, FALSE)
\* line 928: r'([A-Z]+)[-_](\d+)'
re_tag_match ==
    Re(Cat(<<Grp(1, Plus(Cls(Upper))), Cls({"-", "_"}), Grp(2, Plus(Cls(Digit)))>>), 2,
        FALSE)
\* line 964: r'set\s*point|setpoint', re.IGNORECASE
re_has_setpoint ==
    Re(Alt(<<Cat(<<Lit("set"), Star(Cls(Space)), Lit("point")>>), Lit("setpoint")>>), 0,
        TRUE)

\* lines 933-935: every IO suffix, in turn, is cut from the end
RECURSIVE strip_io_suffixes(_, _)
strip_io_suffixes(tag_id, k) ==
    IF k > Len(IO_SUFFIXES) THEN tag_id
    ELSE strip_io_suffixes(IF endswith(tag_id, IO_SUFFIXES[k])
                           THEN SubSeq(tag_id, 1, Len(tag_id) - Len(IO_SUFFIXES[k]))
                           ELSE tag_id, k + 1)

\* lines 867-876: the cells of the row as the function reads them;
\* str(cell or '') of a missing cell is 'nan', which is read as empty
row_description(row) == IF isna(row.Description) THEN PyStr("") ELSE row.Description
row_rack_target_id(row) ==
    LET v == IF truthy(row.target_id_rack) THEN py_str(row.target_id_rack) ELSE ""
    IN  IF v = "nan" THEN "" ELSE v

\* a or b, for strings
or_else(a, b) == IF a # "" THEN a ELSE b

\* a variant that asks the description first and the hint last
resolve_tag_id_description_first(rack_target_id, description) ==
    or_else(extract_tag_from_alarm_description(description),
    or_else(extract_alarm_switch_tag(description).tag,
    or_else(extract_transmitter_id(description),
    or_else(extract_tag_id_from_description(description).tag, rack_target_id))))

\* STEP 3, lines 893-920: the tag id before the address is looked at, "" for None
resolve_tag_id(rack_target_id, description) ==
    IF rack_target_id # "" THEN rack_target_id
    ELSE or_else(extract_tag_from_alarm_description(description),
         or_else(extract_alarm_switch_tag(description).tag,
         or_else(extract_transmitter_id(description),
                 extract_tag_id_from_description(description).tag)))

\* STEP 4, lines 923-935
tag_id_from_address(original_tag) ==
    LET array_match == re_search(re_array_match, original_tag)
        tag_match == re_search(re_tag_match, original_tag)
    IN  IF array_match.ok
        THEN group(array_match, original_tag, 1) \o "-" \o group(array_match, original_tag, 2)
        ELSE IF tag_match.ok
        THEN group(tag_match, original_tag, 1) \o "-" \o group(tag_match, original_tag, 2)
        ELSE strip_io_suffixes(original_tag, 1)

\* a variant in which the alarm level is looked at before HOA and permissive
classify_without_day_volume_level_first(original_tag, description, tag_id, eq_type, alarm_level_from_tag, has_setpoint, is_switch) ==
    LET desc_upper == str_upper(py_str(description))
        classification == classify_by_pattern(original_tag, description)
    IN  IF alarm_level_from_tag # ""
        THEN [name |-> get_alarm_tnd_from_level(alarm_level_from_tag, has_setpoint,
                                                is_switch, original_tag),
              states |-> ""]
        ELSE IF detect_hoa_pattern(description)
        THEN [name |-> "Hand/Off/Auto Status", states |-> ""]
        ELSE IF detect_permissive_pattern(description)
        THEN [name |-> "Permissive Status", states |-> ""]
        ELSE IF eq_type = "motor" /\ alarm_level_from_tag = ""
        THEN resolve_motor_tnd(original_tag, description)
        ELSE IF eq_type = "valve" /\ alarm_level_from_tag = ""
        THEN resolve_valve_tnd(original_tag, tag_id, description)
        ELSE IF alarm_level_from_tag # ""
        THEN [name |-> get_alarm_tnd_from_level(alarm_level_from_tag, has_setpoint,
                                                is_switch, original_tag),
              states |-> ""]
        ELSE IF contains(desc_upper, "SETPOINT") \/ contains(desc_upper, "SET POINT")
        THEN [name |-> IF detect_setpoint_type(description) # ""
                       THEN detect_setpoint_type(description) ELSE "Setpoint",
              states |-> ""]
        ELSE IF is_alarm_address(original_tag) THEN [name |-> "Alarm", states |-> ""]
        ELSE IF classification.found
        THEN [name |-> classification.description, states |-> ""]
        ELSE [name |-> identify_tag_type(description), states |-> ""]

\* lines 974-997: the priority chain below the day volume
classify_without_day_volume(original_tag, description, tag_id, eq_type, alarm_level_from_tag, has_setpoint, is_switch) ==
    LET desc_upper == str_upper(py_str(description))
        classification == classify_by_pattern(original_tag, description)
    IN  IF detect_hoa_pattern(description)
        THEN [name |-> "Hand/Off/Auto Status", states |-> ""]
        ELSE IF detect_permissive_pattern(description)
        THEN [name |-> "Permissive Status", states |-> ""]
        ELSE IF eq_type = "motor" /\ alarm_level_from_tag = ""
        THEN resolve_motor_tnd(original_tag, description)
        ELSE IF eq_type = "valve" /\ alarm_level_from_tag = ""
        THEN resolve_valve_tnd(original_tag, tag_id, description)
        ELSE IF alarm_level_from_tag # ""
        THEN [name |-> get_alarm_tnd_from_level(alarm_level_from_tag, has_setpoint,
                                                is_switch, original_tag),
              states |-> ""]
        ELSE IF contains(desc_upper, "SETPOINT") \/ contains(desc_upper, "SET POINT")
        THEN [name |-> IF detect_setpoint_type(description) # ""
                       THEN detect_setpoint_type(description) ELSE "Setpoint",
              states |-> ""]
        ELSE IF is_alarm_address(original_tag) THEN [name |-> "Alarm", states |-> ""]
        ELSE IF classification.found
        THEN [name |-> classification.description, states |-> ""]
        ELSE [name |-> identify_tag_type(description), states |-> ""]

\* a variant in which the alarm level is looked at before the day volume
classify_target_name_alarm_first(day_volume, original_tag, description, tag_id, eq_type, alarm_level_from_tag, has_setpoint, is_switch) ==
    IF alarm_level_from_tag # "" \/ day_volume = ""
    THEN classify_without_day_volume(original_tag, description, tag_id, eq_type,
                                     alarm_level_from_tag, has_setpoint, is_switch)
    ELSE [name |-> day_volume, states |-> ""]

\* lines 972-997: Day volume > HOA > Permissive > equipment type > alarm level >
\* setpoint > ISA
classify_target_name(day_volume, original_tag, description, tag_id, eq_type, alarm_level_from_tag, has_setpoint, is_switch) ==
    IF day_volume # "" THEN [name |-> day_volume, states |-> ""]
    ELSE classify_without_day_volume(original_tag, description, tag_id, eq_type,
                                     alarm_level_from_tag, has_setpoint, is_switch)

NoEntry ==
    [raised |-> TRUE, target_id |-> "", equipment_description |-> "",
     target_name_description |-> "", states |-> "", iconics_plc_path |-> "",
     sort_order |-> 0]

\* STEPS 3 and 4, lines 893-935: the tag id before it is normalized
tag_id_before_normalize(original_tag, description, rack_target_id) ==
    or_else(resolve_tag_id(rack_target_id, description), tag_id_from_address(original_tag))

\* STEP 5c, lines 949-950
valve_target_id(tag_id) ==
    IF is_valve_tag(tag_id, PyStr("")) THEN resolve_valve_target_id(tag_id) ELSE tag_id

\* STEP 5d, lines 953-956: the level of the converted tag, else of a tag in the
\* description, else of the keywords of the description
alarm_level_and_switch(conv, description) ==
    IF conv.level # "" THEN [level |-> conv.level, is_sw |-> conv.is_switch]
    ELSE IF extract_alarm_level_from_description(description).level # ""
    THEN extract_alarm_level_from_description(description)
    ELSE extract_alarm_level_from_keywords(description)

\* STEP 5e, lines 959-962
with_severity(lvl, original_tag, description) ==
    IF lvl.level # "" THEN lvl
    ELSE [level |-> detect_severity_code(original_tag \o " " \o py_str(description)),
          is_sw |-> lvl.is_sw]

\* a variant in which the tag id overrides every validated name
rescue_target_name_any_name(target_name_validated, tag_id, original_tag) ==
    IF tag_id # "" /\ classify_from_tag_id(tag_id, original_tag).tnd # ""
    THEN classify_from_tag_id(tag_id, original_tag).tnd
    ELSE target_name_validated

\* STEPS 7 and 7.5, lines 1000-1008
rescue_target_name(target_name_validated, tag_id, original_tag) ==
    IF /\ target_name_validated \in {"UNCLASSIFIED", "Spare"}
       /\ tag_id # ""
       /\ classify_from_tag_id(tag_id, original_tag).tnd # ""
    THEN classify_from_tag_id(tag_id, original_tag).tnd
    ELSE target_name_validated

\* lines 871 and 876
row_rack_description(row) ==
    LET v == IF truthy(row.rack_description) THEN py_str(row.rack_description) ELSE ""
    IN  IF v = "nan" THEN "" ELSE v

\* lines 1037-1038: row.get(column, default); a column the frame does not have
\* is Absent
Absent == [k |-> "absent", s |-> "", n |-> 0]
row_get(cell, default) == IF cell = Absent THEN default ELSE cell

\* STEP 3, lines 894-918: the text the equipment description is made from
step3_equipment(description, rack_target_id, rack_description) ==
    IF rack_target_id # ""
    THEN (IF rack_description # "" THEN PyStr(rack_description) ELSE description)
    ELSE IF extract_tag_from_alarm_description(description) # "" THEN description
    ELSE IF extract_alarm_switch_tag(description).tag # ""
    THEN extract_alarm_switch_tag(description).rest
    ELSE extract_tag_id_from_description(description).equipment

\* lines 130, 146, 174 and 832: a number other than 0 is handed to re.sub or
\* to str methods, which raises
equipment_raises(equipment) == equipment.k = "num" /\ equipment.n # 0

\* the equipment text as a str; a value that is not a str is falsy here and
\* ends as '' at line 1022
equipment_text(equipment) == IF isinstance_str(equipment) THEN equipment.s ELSE ""

\* lines 972-983: motor and valve status words are stripped in the motor and
\* valve branches of the chain
strip_status_words(equipment, day_volume, description, eq_type, alarm_level_from_tag) ==
    IF day_volume # "" \/ detect_hoa_pattern(description)
       \/ detect_permissive_pattern(description)
    THEN equipment
    ELSE IF eq_type = "motor" /\ alarm_level_from_tag = ""
    THEN strip_motor_status_words(equipment)
    ELSE IF eq_type = "valve" /\ alarm_level_from_tag = ""
    THEN strip_valve_status_words(equipment)
    ELSE equipment

\* a variant that cleans the alarm words only
equipment_final_alarm_words_only(equipment, tag_id, alarm_level_from_tag, has_setpoint) ==
    capitalize_proper(
        IF alarm_level_from_tag # ""
        THEN strip_alarm_suffix_from_description(
                 clean_alarm_description(equipment, alarm_level_from_tag, has_setpoint))
        ELSE equipment)

\* STEPS 8 and 9, lines 1011-1022
equipment_final(equipment, tag_id, alarm_level_from_tag, has_setpoint) ==
    capitalize_proper(enhance_with_isa_measurement(strip_scaling_range(
        IF alarm_level_from_tag # ""
        THEN strip_alarm_suffix_from_description(
                 clean_alarm_description(equipment, alarm_level_from_tag, has_setpoint))
        ELSE equipment), tag_id))

\* a variant that stores the address without its IO suffixes
mtl_entry_of_clean_path(original_tag, description, tag_id, chosen, equipment) ==
    [raised |-> FALSE,
     target_id |-> tag_id,
     equipment_description |-> equipment,
     target_name_description |->
         rescue_target_name(validate_target_name(chosen.name), tag_id, original_tag),
     states |-> chosen.states,
     iconics_plc_path |-> strip_io_suffixes(original_tag, 1),
     sort_order |-> classify_by_pattern(original_tag, description).order]

\* lines 1000-1040: the entry built from the chosen name and the equipment text
mtl_entry_of(original_tag, description, tag_id, chosen, equipment) ==
    [raised |-> FALSE,
     target_id |-> tag_id,
     equipment_description |-> equipment,
     target_name_description |->
         rescue_target_name(validate_target_name(chosen.name), tag_id, original_tag),
     states |-> chosen.states,
     iconics_plc_path |-> original_tag,
     sort_order |-> classify_by_pattern(original_tag, description).order]

\* lines 972-1022, the equipment type and the setpoint flag known
process_step7(original_tag, description, day_volume, tag_id, lvl, equipment, eq_type, has_setpoint) ==
    mtl_entry_of(original_tag, description, tag_id,
        classify_target_name(day_volume, original_tag, description, tag_id, eq_type,
                             lvl.level, has_setpoint, lvl.is_sw),
        equipment_final(strip_status_words(equipment, day_volume, description, eq_type,
                                           lvl.level),
                        tag_id, lvl.level, has_setpoint))

\* STEP 6, lines 964-967
process_step6(original_tag, description, day_volume, tag_id, lvl, equipment) ==
    IF classify_equipment_type_raises(original_tag, description, tag_id)
       \/ equipment_raises(equipment)
    THEN NoEntry
    ELSE process_step7(original_tag, description, day_volume, tag_id, lvl,
             equipment_text(equipment),
             classify_equipment_type(original_tag, description, tag_id),
             re_search(re_has_setpoint, py_str(description)).ok)

\* STEPS 5b to 5e, lines 946-962
process_step5(original_tag, description, day_volume, conv, equipment) ==
    IF conv.level = "" /\ extract_alarm_level_from_description_raises(description)
    THEN NoEntry
    ELSE process_step6(original_tag, description, day_volume,
             valve_target_id(normalize_transmitter_prefix(conv.tag)),
             with_severity(alarm_level_and_switch(conv, description), original_tag,
                           description),
             equipment)

\* lines 879-943: day volume, tag id, normalization, alarm tag conversion
process_cells(original_tag, description, rack_target_id, rack_description) ==
    process_step5(original_tag, description, detect_day_volume(original_tag, description),
        convert_alarm_tag_to_transmitter(normalize_target_id(
            tag_id_before_normalize(original_tag, description, rack_target_id))),
        step3_equipment(description, rack_target_id, rack_description))

\* lines 1037-1038: the audit columns are copied into the entry
with_audit(mtl_entry, row) ==
    IF mtl_entry.raised THEN mtl_entry
    ELSE mtl_entry @@ [description_source |-> row_get(row.Description_Source, PyStr("Unknown")),
                       screens |-> row_get(row.Screens, PyStr(""))]

process_io_to_mtl(row) ==
    with_audit(process_cells(row.IO_Address, row_description(row), row_rack_target_id(row),
                             row_rack_description(row)), row)

-----------------------------------------------------------------------------
(* The conversion run: convert_to_mtl reads the frame, processes the rows  *)
(* in order and saves the sorted table.                                    *)

\* the characters in code point order, for the comparison of str values
CodeOrder ==
    " !$%&(),-./0123456789:ABCDEFGHIJKLMNOPQRSTUVWXYZ[]_abcdefghijklmnopqrstuvwxyz"

ord(c) == CHOOSE k \in 1..Len(CodeOrder) : SubSeq(CodeOrder, k, k) = c

\* a < b on str
str_lt(a, b) ==
    LET n == IF Len(a) < Len(b) THEN Len(a) ELSE Len(b)
        diffs == {i \in 1..n : ch(a, i) # ch(b, i)}
    IN  IF diffs = {} THEN Len(a) < Len(b)
        ELSE LET i == CHOOSE k \in diffs : \A j \in diffs : k <= j
             IN  ord(ch(a, i)) < ord(ch(b, i))

\* line 1110: the order of sort_values(['target_id', 'sort_order'])
entry_lt(a, b) ==
    \/ str_lt(a.target_id, b.target_id)
    \/ a.target_id = b.target_id /\ a.sort_order < b.sort_order

\* lines 1107-1111: the entries sorted, rows that compare equal keeping their
\* order, and the sort_order column dropped
sort_values(entries) ==
    LET n == Len(entries)
        rank(i) == 1 + Cardinality({j \in 1..n :
                        \/ entry_lt(entries[j], entries[i])
                        \/ ~entry_lt(entries[i], entries[j]) /\ j < i})
        at(p) == entries[CHOOSE i \in 1..n : rank(i) = p]
    IN  [p \in 1..n |->
            [target_id |-> at(p).target_id,
             equipment_description |-> at(p).equipment_description,
             target_name_description |-> at(p).target_name_description,
             states |-> at(p).states, iconics_plc_path |-> at(p).iconics_plc_path,
             description_source |-> at(p).description_source,
             screens |-> at(p).screens]]

\* a variant in which a record takes the tag id of the record before it
AppendEntry_carry_over(mtl_entry) ==
    IF mtl_entry.raised
    THEN /\ pc' = "raised"
         /\ UNCHANGED <<idx, mtl_entries>>
    ELSE /\ mtl_entries' = Append(mtl_entries,
                IF mtl_entries = << >> THEN mtl_entry
                ELSE [mtl_entry EXCEPT !.target_id = mtl_entries[Len(mtl_entries)].target_id])
         /\ idx' = idx + 1
         /\ pc' = pc

\* lines 1089-1090: the entry is appended, unless the call raised
AppendEntry(mtl_entry) ==
    IF mtl_entry.raised
    THEN /\ pc' = "raised"
         /\ UNCHANGED <<idx, mtl_entries>>
    ELSE /\ mtl_entries' = Append(mtl_entries, mtl_entry)
         /\ idx' = idx + 1
         /\ pc' = pc

\* lines 1088-1090: one turn of the loop; an exception of process_io_to_mtl
\* ends the run
ProcessRow ==
    /\ pc = "loop"
    /\ idx <= Len(df)
    /\ AppendEntry(process_io_to_mtl(df[idx]))
    /\ UNCHANGED <<df, text, out>>

SaveMtl ==
    /\ pc = "loop"
    /\ idx > Len(df)
    /\ IF mtl_entries = << >>
       THEN pc' = "raised" /\ out' = out
       ELSE pc' = "saved" /\ out' = sort_values(mtl_entries)
    /\ UNCHANGED <<df, idx, mtl_entries, text>>

Next == ProcessRow \/ SaveMtl

-----------------------------------------------------------------------------
(* Step 2: the enrichers.  A frame of step 2 is a sequence of records with  *)
(* str cells (step2_enrich.py lines 38-42 fill the missing cells with '').  *)
(* A dict is a function from its keys; a missing key is outside DOMAIN.     *)

\* src/utils/io_address.py lines 10-16
_SUFFIXES ==
    <<"!RD", "!WR", "!SC", "!BI", "!BO", "!AI", "!AO", "!DI", "!DO",
      "!ST", "!EN", "!DN", "!PV", "!SP", "!CV">>

\* src/utils/io_address.py lines 19-31: the first suffix of the list that
\* ends the address is removed
clean_io_address(address) ==
    IF address = "" THEN address
    ELSE LET hits == {k \in 1..Len(_SUFFIXES) : endswith(address, _SUFFIXES[k])}
         IN  IF hits = {} THEN address
             ELSE LET k == CHOOSE h \in hits : \A j \in hits : h <= j
                  IN  SubSeq(address, 1, Len(address) - Len(_SUFFIXES[k]))

\* src/utils/io_address.py lines 34-39
normalize_for_lookup(address) == IF address # "" THEN clean_io_address(address) ELSE ""

\* dict.get(key): None is the record NoData, whose field found is FALSE
NoData == [found |-> FALSE]

dict_get(d, key) == IF key \in DOMAIN d THEN d[key] ELSE NoData

\* a or b, on the values of dict.get: a dict of metadata is true, a str is
\* true when it is not ''
py_or(a, b) == IF a.found THEN a ELSE b

EmptyDict == [k \in {} |-> NoData]

\* cpa_screen_enricher.py lines 62-77: the rows of one kind of screen, the
\* later row replacing the earlier one under both keys
RECURSIVE _build_lookup(_, _)
_build_lookup(screen_data, n) ==
    IF n = 0 THEN EmptyDict
    ELSE LET row      == screen_data[n]
             lookup   == _build_lookup(screen_data, n - 1)
             metadata == [found |-> TRUE, target_id |-> row.target_id,
                          unit |-> row.unit, description |-> row.description]
         IN  IF row.target_id # "" \/ row.unit # "" \/ row.description # ""
             THEN (row.io_address :> metadata)
                  @@ (normalize_for_lookup(row.io_address) :> metadata) @@ lookup
             ELSE lookup

\* cpa_screen_enricher.py lines 276-302: one row of the loop
cpa_row(row, rack_lookup, da_lookup) ==
    LET io_address == row.IO_Address
        io_clean   == normalize_for_lookup(io_address)
        data == py_or(dict_get(rack_lookup, io_address),
                py_or(dict_get(rack_lookup, io_clean),
                py_or(dict_get(da_lookup, io_address), dict_get(da_lookup, io_clean))))
    IN  IF ~data.found THEN row
        ELSE [row EXCEPT
                !.target_id_rack =
                    IF row.target_id_rack = "" /\ data.target_id # "" THEN data.target_id ELSE @,
                !.target_units =
                    IF row.target_units = "" /\ data.unit # "" THEN data.unit ELSE @,
                !.rack_description =
                    IF row.rack_description = "" /\ data.description # "" THEN data.description ELSE @,
                !.Description =
                    IF row.Description = "" /\ data.description # "" THEN data.description ELSE @,
                !.Description_Source =
                    IF row.Description = "" /\ data.description # "" THEN "CPA_Screen" ELSE @]

\* cpa_screen_enricher.py lines 255-305
enrich_from_cpa_screens(frame, rack_data, da_data) ==
    [i \in 1..Len(frame) |->
        cpa_row(frame[i], _build_lookup(rack_data, Len(rack_data)),
                _build_lookup(da_data, Len(da_data)))]

\* neoproj_rack_enricher.py lines 165-179: one row of the loop; line 177
\* does not look at the present rack_description
neoproj_row(row, rack_data) ==
    LET tag_name == str_replace(row.HMI_Tag_Name, "Tags.", "")
    IN  IF tag_name = "" \/ tag_name \notin DOMAIN rack_data THEN row
        ELSE LET data == rack_data[tag_name]
             IN  [row EXCEPT
                    !.target_id_rack =
                        IF row.target_id_rack = "" /\ data.tag_id # "" THEN data.tag_id ELSE @,
                    !.target_units =
                        IF row.target_units = "" /\ data.unit # "" THEN data.unit ELSE @,
                    !.rack_description =
                        IF data.description # "" THEN data.description ELSE @]

\* neoproj_rack_enricher.py lines 138-187, with the rack data of line 160
enrich_from_neoproj_rack(frame, rack_data) ==
    IF DOMAIN rack_data = {} THEN frame
    ELSE [i \in 1..Len(frame) |-> neoproj_row(frame[i], rack_data)]

\* csv_enricher.py lines 79-102: one row of the loop; both blocks test the
\* cells of the row as it was when the loop reached it
csv_row(row, descriptions, alias_map) ==
    LET io_address == row.IO_Address
        io_clean   == normalize_for_lookup(io_address)
        alias == IF row.target_id_rack = ""
                 THEN py_or(dict_get(alias_map, io_address), dict_get(alias_map, io_clean))
                 ELSE NoData
        desc  == IF row.Description = ""
                 THEN py_or(dict_get(descriptions, io_address), dict_get(descriptions, io_clean))
                 ELSE NoData
        from_alias == alias.found /\ row.Description = "" /\ alias.description # ""
    IN  [row EXCEPT
           !.target_id_rack = IF alias.found THEN alias.tag_id ELSE @,
           !.Description = IF desc.found THEN desc.s
                           ELSE IF from_alias THEN alias.description ELSE @,
           !.Description_Source = IF desc.found THEN "CSV"
                                  ELSE IF from_alias THEN "CSV_ALIAS" ELSE @]

\* csv_enricher.py lines 61-105
enrich_from_csv(frame, descriptions, alias_map) ==
    IF DOMAIN descriptions = {} /\ DOMAIN alias_map = {} THEN frame
    ELSE [i \in 1..Len(frame) |-> csv_row(frame[i], descriptions, alias_map)]

\* a variant that writes the L5K text over the description of the row
l5k_row_overwrite(row, descriptions) ==
    LET desc == py_or(dict_get(descriptions, row.IO_Address),
                      dict_get(descriptions, normalize_for_lookup(row.IO_Address)))
    IN  [row EXCEPT !.Description = IF desc.found THEN desc.s ELSE @,
                    !.Description_Source = IF desc.found THEN "L5K" ELSE @]

\* l5k_enricher.py lines 68-77: one row of the loop
l5k_row(row, descriptions) ==
    LET io_address == row.IO_Address
        io_clean   == normalize_for_lookup(io_address)
        desc == IF row.Description = ""
                THEN py_or(dict_get(descriptions, io_address), dict_get(descriptions, io_clean))
                ELSE NoData
    IN  [row EXCEPT !.Description = IF desc.found THEN desc.s ELSE @,
                    !.Description_Source = IF desc.found THEN "L5K" ELSE @]

\* l5k_enricher.py lines 54-80
enrich_from_l5k(frame, descriptions) ==
    IF DOMAIN descriptions = {} THEN frame
    ELSE [i \in 1..Len(frame) |-> l5k_row(frame[i], descriptions)]

-----------------------------------------------------------------------------
(* The frames the run is started on.  A row has the columns the function   *)
(* reads: 'IO Address', 'Description' and 'target_id_rack' (the hint),     *)
(* 'rack_description' and the audit columns.                               *)

MaxWords == 2
MaxRows  == 2

\* a row with the columns rack_description, 'Description Source' and 'Screens'
FullRow(a, d, h, r, src, scr) ==
    [IO_Address |-> a, Description |-> d, target_id_rack |-> h, rack_description |-> r,
     Description_Source |-> src, Screens |-> scr]

Row(a, d, h) == FullRow(a, d, h, PyNaN, PyStr("IONaming"), PyStr("MAIN, TANKS"))

Vocabulary ==
    {"YESTERDAY", "PAHH-310", "HOA", "PERMISSIVE", "PUMP", "RUNNING", "SETPOINT", "HIGH",
     "ZSO-5"}

\* the descriptions of at most n words of the vocabulary
RECURSIVE Phrases(_)
Phrases(n) ==
    IF n = 0 THEN {""}
    ELSE Phrases(n - 1) \cup
         {IF p = "" THEN w ELSE p \o " " \o w : p \in Phrases(n - 1), w \in Vocabulary}

WordRows ==
    {Row(a, PyStr(d), PyNaN) : a \in {"ALARM[310]", "BIT[5]"}, d \in Phrases(MaxWords)}

\* measurement alarm tags and switch tags: letter, A or S, level, number
MeasurementLetters == {"P", "L", "T", "F", "A", "D", "V"}
Levels == {"HH", "H", "LL", "L"}
AlarmTags == {m \o "A" \o v \o "-310" : m \in MeasurementLetters, v \in Levels} \cup {"LAL-12A"}

\* what comes before the alarm tag that ends a description
AlarmTagPrefixes ==
    {"", "V-700 LP SEPARATOR LEVEL ", "TODAY VOLUME ", "PUMP HOA ", "PERMISSIVE ",
     "HIGH SETPOINT ", "PIT-100-PAH TRIP "}

AlarmTagRows ==
    {Row("ALARM[310]", PyStr(p \o t), PyNaN) : p \in AlarmTagPrefixes, t \in AlarmTags}

FixedAddresses ==
    {"ALARM[310]", "WRITEFLOAT[12]", "RACK00_SLOT06[10]!RD", "READFLOAT[5]", "BIT[5]",
     "PIT-701", "FLOW_DAY0", "X!SC!WR!RD", ""}

FixedDescriptions ==
    {PyNaN, PyStr(""), PyStr("V-700 LP SEPARATOR LEVEL PAHH-310"),
     PyStr("PUMP P-1 LEAD START SETPOINT"), PyStr("TODAY VOLUME PAHH-310"),
     PyStr("DAY 0 PUMP RUNNING"), PyStr("LIT-12A TANK LEVEL"), PyStr("ZSO-5 VALVE OPEN"),
     PyStr("PSH-310 DISCHARGE"), PyStr("SPARE"), PyStr("COMPRESSOR VFD FAULT"),
     PyStr("LEVEL HI HI"), PyStr("Tank level set point")}

FixedRows == {Row(a, d, h) : a \in FixedAddresses, d \in FixedDescriptions, h \in {PyNaN}}

Hints ==
    {"PAH-310", "1:PIT-100", "pt_100", " ", "nan", "zso_5", "PSH-310", "FIT100", "LY-3",
     "P-1"}

\* the address and the description a hint comes with
HintContexts ==
    {<<"BIT[5]", PyStr("")>>, <<"WRITEFLOAT[12]", PyStr("LIT-12A TANK LEVEL")>>,
     <<"ALARM[310]", PyStr("V-700 LP SEPARATOR LEVEL PAHH-310")>>}

HintRows(h) == {Row(c[1], c[2], PyStr(h)) : c \in HintContexts}

\* a number left in the Description cell by the spreadsheet parser
NumericRows ==
    {Row(a, PyNum(n), h) : a \in {"ALARM[3]", "FLOW_DAY0"}, n \in {0, 5},
                           h \in {PyNaN, PyStr("PAH-310"), PyStr("XV-5"), PyStr("P-1")}}

\* rows whose audit columns vary: a column the frame does not have, an empty
\* cell, a text and a number
AuditRows ==
    {FullRow(a, PyStr("LIT-12A TANK LEVEL"), h, PyStr("TANK T-1 LEVEL"), src, scr) :
        a \in {"RACK00_SLOT06[10]!RD", "X!SC!WR!RD"}, h \in {PyNaN, PyStr("LT-7")},
        src \in {Absent, PyNaN, PyStr(""), PyStr("CSV")},
        scr \in {Absent, PyNaN, PyStr("MAIN, TANKS"), PyNum(3)}}

\* switch tags given as the hint of points whose description names a severity
SwitchRows ==
    {Row(a, PyStr(d), PyStr(h)) :
        a \in {"BIT[5]", "ALARM[3]"},
        d \in {"TANK PRESSURE HIGH", "TANK LEVEL LOW LOW", "TANK PRESSURE",
               "HIGH PRESSURE SETPOINT"},
        h \in {"PS-100", "PSH-100", "LXS-7"}}

Rows == WordRows \cup AlarmTagRows \cup FixedRows \cup NumericRows \cup AuditRows
        \cup SwitchRows
        \cup UNION {HintRows(h) : h \in Hints}

\* frames of several rows: rows that share a hint, and rows of every kind
MixedRows ==
    {Row("ALARM[310]", PyStr("V-700 LP SEPARATOR LEVEL PAHH-310"), PyNaN),
     Row("RACK00_SLOT06[10]!RD", PyNaN, PyNaN), Row("ALARM[3]", PyNum(5), PyNaN),
     Row("BIT[5]", PyStr("ZSO-5 VALVE OPEN"), PyStr(""))}

FramesOver(S) == UNION {[1..n -> S] : n \in 2..MaxRows}

Frames ==
    {<< >>} \cup {<<r>> : r \in Rows} \cup FramesOver(MixedRows)
    \cup UNION {FramesOver(HintRows(h)) : h \in Hints}

\* line 1057 and lines 1080-1088: the frame is loaded and the loop starts
Init ==
    /\ df \in Frames
    /\ idx = 1
    /\ mtl_entries = << >>
    /\ out = << >>
    /\ text = ""
    /\ pc = "loop"

Spec == Init /\ [][Next]_vars

-----------------------------------------------------------------------------
(* convert_alarm_tag_to_transmitter on its own: the two versions of the    *)
(* function (step3_convert.py and converters/tag_classifier.py) are        *)
(* applied, one after the other, to a tag built from its parts.  df holds  *)
(* the parts <<letter, "A" or "S", level, number>> and text the tag.       *)

MaxDigits == 2

DigitsUsed == {"0", "3", "7"}

RECURSIVE Numbers(_)
Numbers(n) ==
    IF n = 1 THEN DigitsUsed
    ELSE Numbers(n - 1) \cup {p \o d : p \in Numbers(n - 1), d \in DigitsUsed}

TagNumbers == Numbers(MaxDigits) \cup {"12A"}

TagParts ==
    {<<m, k, v, n>> : m \in MeasurementLetters, k \in {"A", "S"}, v \in Levels, n \in TagNumbers}

InitConvert ==
    /\ df \in TagParts
    /\ text = df[1] \o df[2] \o df[3] \o "-" \o df[4]
    /\ idx = 1
    /\ mtl_entries = << >>
    /\ out = << >>
    /\ pc = "step3_convert"

\* src/step3_convert.py, convert_alarm_tag_to_transmitter
Convert ==
    /\ pc = "step3_convert"
    /\ out' = Append(out, convert_alarm_tag_to_transmitter(text))
    /\ pc' = "tag_classifier"
    /\ UNCHANGED <<df, idx, mtl_entries, text>>

\* src/converters/tag_classifier.py, convert_alarm_tag_to_transmitter
ConvertTc ==
    /\ pc = "tag_classifier"
    /\ out' = Append(out, tc_convert_alarm_tag_to_transmitter(text))
    /\ pc' = "done"
    /\ UNCHANGED <<df, idx, mtl_entries, text>>

NextConvert == Convert \/ ConvertTc

SpecConvert == InitConvert /\ [][NextConvert]_vars

-----------------------------------------------------------------------------
(* normalize_target_id on its own: it is applied to a text, and then to    *)
(* its own result.                                                         *)

MaxLen == 3

NormalizeChars == {"a", "B", "1", "_", "-", " "}

RECURSIVE Texts(_)
Texts(n) ==
    IF n = 0 THEN {""}
    ELSE Texts(n - 1) \cup {t \o c : t \in Texts(n - 1), c \in NormalizeChars}

InitNormalize ==
    /\ text \in Texts(MaxLen)
    /\ df = << >>
    /\ idx = 1
    /\ mtl_entries = << >>
    /\ out = << >>
    /\ pc = "normalize"

Normalize ==
    /\ pc = "normalize"
    /\ out' = <<normalize_target_id(text)>>
    /\ pc' = "normalize_again"
    /\ UNCHANGED <<df, idx, mtl_entries, text>>

NormalizeAgain ==
    /\ pc = "normalize_again"
    /\ out' = Append(out, normalize_target_id(out[1]))
    /\ pc' = "done"
    /\ UNCHANGED <<df, idx, mtl_entries, text>>

NextNormalize == Normalize \/ NormalizeAgain

SpecNormalize == InitNormalize /\ [][NextNormalize]_vars

-----------------------------------------------------------------------------
(* normalize_unit_lowercase on its own: it is applied to a unit name in    *)
(* every casing, with blanks around it or without.                         *)

MaxPad == 1

UnitNames ==
    DOMAIN special \cup keep_uppercase \cup {"", "DEG F", "BARG", "KPA", "FT", "DEGK", "NAN"}

\* every casing of a text
RECURSIVE Casings(_)
Casings(s) ==
    IF s = "" THEN {""}
    ELSE {c \o r : c \in {str_upper(Head(s)), str_lower(Head(s))}, r \in Casings(Tail(s))}

RECURSIVE Blanks(_)
Blanks(n) == IF n = 0 THEN {""} ELSE Blanks(n - 1) \cup {b \o " " : b \in Blanks(n - 1)}

Units == {l \o u \o r : l \in Blanks(MaxPad), r \in Blanks(MaxPad),
                        u \in UNION {Casings(n) : n \in UnitNames}}

InitUnit ==
    /\ text \in Units
    /\ df = << >>
    /\ idx = 1
    /\ mtl_entries = << >>
    /\ out = << >>
    /\ pc = "normalize_unit"

NormalizeUnit ==
    /\ pc = "normalize_unit"
    /\ out' = <<normalize_unit_lowercase(text)>>
    /\ pc' = "done"
    /\ UNCHANGED <<df, idx, mtl_entries, text>>

NextUnit == NormalizeUnit

SpecUnit == InitUnit /\ [][NextUnit]_vars

-----------------------------------------------------------------------------
(* detect_day_volume on its own: the two versions of the function are      *)
(* applied, one after the other, to an address and a description.  df      *)
(* holds <<address>> and text the description.                             *)

MaxDayWords == 3

DayVocabulary == {"TODAY", "YESTERDAY", "VOLUME", "DAY 1", "TOTAL", "today"}

\* the descriptions of at most n words of the vocabulary
RECURSIVE DayPhrases(_)
DayPhrases(n) ==
    IF n = 0 THEN {""}
    ELSE DayPhrases(n - 1) \cup
         {IF p = "" THEN w ELSE p \o " " \o w : p \in DayPhrases(n - 1), w \in DayVocabulary}

DayAddresses == {"READFLOAT[5]", "FLOW_DAY1", "FLOW.DAY0"}

InitDayVolume ==
    /\ df \in {<<a>> : a \in DayAddresses}
    /\ text \in DayPhrases(MaxDayWords)
    /\ idx = 1
    /\ mtl_entries = << >>
    /\ out = << >>
    /\ pc = "step3_convert"

\* src/step3_convert.py, detect_day_volume
DetectDayVolume ==
    /\ pc = "step3_convert"
    /\ out' = Append(out, detect_day_volume(df[1], PyStr(text)))
    /\ pc' = "tag_classifier"
    /\ UNCHANGED <<df, idx, mtl_entries, text>>

\* src/converters/tag_classifier.py, detect_day_volume
DetectDayVolumeTc ==
    /\ pc = "tag_classifier"
    /\ out' = Append(out, tc_detect_day_volume(df[1], PyStr(text)))
    /\ pc' = "done"
    /\ UNCHANGED <<df, idx, mtl_entries, text>>

NextDayVolume == DetectDayVolume \/ DetectDayVolumeTc

SpecDayVolume == InitDayVolume /\ [][NextDayVolume]_vars

-----------------------------------------------------------------------------
(* classify_by_pattern on its own: it is applied to an address and a       *)
(* description made of ISA codes.  df holds <<address>> and text the       *)
(* description.                                                            *)

MaxCodes == 2

CodeVocabulary ==
    {"PAH-1", "PAHH-1", "LAL-2", "PSH-3", "PSHH-3", "LXSLL-4", "PIT-5", "PIC-6", "XV-7",
     "TANK", "pah-1"}

\* the descriptions of at most n words of the vocabulary
RECURSIVE CodePhrases(_)
CodePhrases(n) ==
    IF n = 0 THEN {""}
    ELSE CodePhrases(n - 1) \cup
         {IF p = "" THEN w ELSE p \o " " \o w : p \in CodePhrases(n - 1), w \in CodeVocabulary}

CodeAddresses == {"BIT[5]", "PSHH_3", "TAH[2]"}

InitClassify ==
    /\ df \in {<<a>> : a \in CodeAddresses}
    /\ text \in CodePhrases(MaxCodes)
    /\ idx = 1
    /\ mtl_entries = << >>
    /\ out = << >>
    /\ pc = "classify_by_pattern"

ClassifyByPattern ==
    /\ pc = "classify_by_pattern"
    /\ out' = <<classify_by_pattern(df[1], PyStr(text))>>
    /\ pc' = "done"
    /\ UNCHANGED <<df, idx, mtl_entries, text>>

NextClassify == ClassifyByPattern

SpecClassify == InitClassify /\ [][NextClassify]_vars

-----------------------------------------------------------------------------
(* to_proper_case and capitalize_proper on their own: both are applied, one *)
(* after the other, to a text of words with and without digits.            *)

MaxCaseWords == 2

CaseVocabulary ==
    {"4TH", "2A", "1st", "6TH", "12TH", "(4TH)", "3RD-2A", "P2a", "STAGE", "pump", "plc",
     "ESD-2"}

\* the texts of at most n words of the vocabulary
RECURSIVE CasePhrases(_)
CasePhrases(n) ==
    IF n = 0 THEN {""}
    ELSE CasePhrases(n - 1) \cup
         {IF p = "" THEN w ELSE p \o " " \o w : p \in CasePhrases(n - 1), w \in CaseVocabulary}

InitProperCase ==
    /\ df = << >>
    /\ text \in CasePhrases(MaxCaseWords)
    /\ idx = 1
    /\ mtl_entries = << >>
    /\ out = << >>
    /\ pc = "to_proper_case"

\* src/step3_convert.py, to_proper_case
ToProperCase ==
    /\ pc = "to_proper_case"
    /\ out' = Append(out, to_proper_case(text))
    /\ pc' = "capitalize_proper"
    /\ UNCHANGED <<df, idx, mtl_entries, text>>

\* src/step3_convert.py, capitalize_proper
CapitalizeProper ==
    /\ pc = "capitalize_proper"
    /\ out' = Append(out, capitalize_proper(text))
    /\ pc' = "done"
    /\ UNCHANGED <<df, idx, mtl_entries, text>>

NextProperCase == ToProperCase \/ CapitalizeProper

SpecProperCase == InitProperCase /\ [][NextProperCase]_vars

-----------------------------------------------------------------------------
(* enhance_with_isa_measurement on its own: it is applied to an equipment  *)
(* description and a tag id.  df holds <<target_id>> and text the          *)
(* description.                                                            *)

IsaTagIds ==
    {"PIT-100", "pit-1", "TIT100", "LIT-1", "FIT-2", "AIT-3", "VT-4", "VFD-1", "XV-1",
     "HS-2", "-PIT", "M-1", "DPIT-5", ""}

IsaDescriptions ==
    {"", "Tank", "tank pressure", "Suction Pressure", "TEMPERATURE", "Level Transmitter",
     "Flow", "Motor Vibration High", "Analytical", "Press"}

InitIsa ==
    /\ df \in {<<t>> : t \in IsaTagIds}
    /\ text \in IsaDescriptions
    /\ idx = 1
    /\ mtl_entries = << >>
    /\ out = << >>
    /\ pc = "enhance_with_isa_measurement"

\* src/step3_convert.py, enhance_with_isa_measurement
EnhanceWithIsaMeasurement ==
    /\ pc = "enhance_with_isa_measurement"
    /\ out' = <<enhance_with_isa_measurement(text, df[1])>>
    /\ pc' = "done"
    /\ UNCHANGED <<df, idx, mtl_entries, text>>

NextIsa == EnhanceWithIsaMeasurement

SpecIsa == InitIsa /\ [][NextIsa]_vars

-----------------------------------------------------------------------------
(* The two ways a measurement alarm tag reaches process_io_to_mtl: as the   *)
(* hint of the row, and as the end of its description with no hint.  text   *)
(* is the tag, df holds <<address, what precedes the tag in the             *)
(* description>>, out the target_id of each way.                            *)

Modifiers == {"", "X", "I"}

PathTags ==
    {m \o x \o "A" \o v \o "-" \o n :
        m \in MeasurementLetters, x \in Modifiers, v \in Levels, n \in {"310", "12A"}}
    \cup {"PDA" \o v \o "-310" : v \in Levels}

PathContexts ==
    {<<a, p>> : a \in {"ALARM[310]", "BIT[5]"}, p \in {"", "V-700 LP SEPARATOR LEVEL "}}

InitPaths ==
    /\ text \in PathTags
    /\ df \in PathContexts
    /\ idx = 1
    /\ mtl_entries = << >>
    /\ out = << >>
    /\ pc = "hint"

\* process_io_to_mtl on the row that has the tag as its hint
HintPath ==
    /\ pc = "hint"
    /\ out' = Append(out, process_io_to_mtl(Row(df[1], PyStr(df[2] \o text),
                                                PyStr(text))).target_id)
    /\ pc' = "description"
    /\ UNCHANGED <<df, idx, mtl_entries, text>>

\* process_io_to_mtl on the row that has the tag in its description only
DescriptionPath ==
    /\ pc = "description"
    /\ out' = Append(out, process_io_to_mtl(Row(df[1], PyStr(df[2] \o text), PyNaN)).target_id)
    /\ pc' = "done"
    /\ UNCHANGED <<df, idx, mtl_entries, text>>

NextPaths == HintPath \/ DescriptionPath

SpecPaths == InitPaths /\ [][NextPaths]_vars

-----------------------------------------------------------------------------
(* The enrichers applied to a frame of step 2, in any sequence; the data    *)
(* each enricher reads from its file is chosen when it runs.                *)

\* how many enrichers run on the frame
MaxEnrichers == 2

\* the cells an enricher fills
EnrichedFields == {"target_id_rack", "target_units", "rack_description", "Description"}

EnrichRow(a, h, t, u, r, d) ==
    [IO_Address |-> a, HMI_Tag_Name |-> h, target_id_rack |-> t, target_units |-> u,
     rack_description |-> r, Description |-> d,
     Description_Source |-> IF d = "" THEN "" ELSE "IONaming"]

EnrichRows ==
    {EnrichRow("A[1]!RD", h, t, u, r, d) :
        h \in {"Tags.T1", ""}, t \in {"", "OLD-1"}, u \in {"", "old"},
        r \in {"", "OLD RACK"}, d \in {"", "OLD DESC"}}

BlankRow == EnrichRow("B[2]!WR", "Tags.T2", "", "", "", "")

EnrichFrames == {<<r>> : r \in EnrichRows} \cup {<<r, BlankRow>> : r \in EnrichRows}

\* the rows _extract_rack_data and _extract_discrete_analog_data return
ScreenRows ==
    {[io_address |-> a, target_id |-> t, unit |-> u, description |-> d] :
        a \in {"A[1]", "B[2]!WR"}, t \in {"", "PIT-1"}, u \in {"", "psi"},
        d \in {"", "CPA TEXT"}}

ScreenData == {<< >>} \cup {<<r>> : r \in ScreenRows}

\* the dict _extract_rack_data of the NeoProj enricher returns: a tag has an
\* item when one of its three texts is not ''
NeoprojItems ==
    {[tag_id |-> t, unit |-> u, description |-> d] :
        t \in {"", "PIT-2"}, u \in {"", "psig"}, d \in {"", "NEW RACK"}}
    \ {[tag_id |-> "", unit |-> "", description |-> ""]}

NeoprojData == {EmptyDict} \cup {k :> v : k \in {"T1", "T2"}, v \in NeoprojItems}

\* the dicts load_csv_data returns: a COMMENT has a text, an ALIAS has a name
CsvDescriptions ==
    {EmptyDict} \cup {k :> [found |-> TRUE, s |-> "COMMENT TEXT"] : k \in {"A[1]", "A[1]!RD", "B[2]"}}

CsvAliases ==
    {EmptyDict} \cup {k :> [found |-> TRUE, tag_id |-> "PIT-3", description |-> d] :
                        k \in {"A[1]", "B[2]!WR"}, d \in {"", "ALIAS TEXT"}}

\* the dict load_l5k_data returns
L5kDescriptions ==
    {EmptyDict} \cup {k :> [found |-> TRUE, s |-> "L5K TEXT"] : k \in {"A[1]", "B[2]"}}

InitEnrich ==
    /\ df \in EnrichFrames
    /\ idx = 0
    /\ mtl_entries = << >>
    /\ text = ""
    /\ out = << >>
    /\ pc = "enrich"

Enriched(frame, enricher) ==
    /\ pc = "enrich"
    /\ idx < MaxEnrichers
    /\ df' = frame
    /\ idx' = idx + 1
    /\ text' = enricher
    /\ UNCHANGED <<mtl_entries, out, pc>>

EnrichFromCpaScreens ==
    \E rack_data \in ScreenData, da_data \in ScreenData :
        Enriched(enrich_from_cpa_screens(df, rack_data, da_data), "enrich_from_cpa_screens")

EnrichFromNeoprojRack ==
    \E rack_data \in NeoprojData :
        Enriched(enrich_from_neoproj_rack(df, rack_data), "enrich_from_neoproj_rack")

EnrichFromCsv ==
    \E descriptions \in CsvDescriptions, alias_map \in CsvAliases :
        Enriched(enrich_from_csv(df, descriptions, alias_map), "enrich_from_csv")

EnrichFromL5k ==
    \E descriptions \in L5kDescriptions :
        Enriched(enrich_from_l5k(df, descriptions), "enrich_from_l5k")

NextEnrich ==
    EnrichFromCpaScreens \/ EnrichFromNeoprojRack \/ EnrichFromCsv \/ EnrichFromL5k

SpecEnrich == InitEnrich /\ [][NextEnrich]_vars

-----------------------------------------------------------------------------
(* run_all.py: main runs the three step scripts one after the other with   *)
(* os.system.  df holds the list of steps, idx the position of the loop,   *)
(* out the history of the run (the scripts started, the results of         *)
(* os.system, the value main returns), text the last line printed.         *)

MaxResult == 40

\* the values os.system can return for a script
SystemResults == 0..MaxResult

\* lines 34-38
steps == <<[num |-> 1, script |-> "step1_extract.py"],
           [num |-> 2, script |-> "step2_enrich.py"],
           [num |-> 3, script |-> "step3_convert.py"]>>

Event(ev, script, value) == [ev |-> ev, script |-> script, value |-> value]

\* a variant that takes every result for a success
run_step_unchecked(result) == TRUE

\* lines 17-20: the value of run_step for a result of os.system
run_step(result) == result = 0

InitRunAll ==
    /\ df = steps
    /\ idx = 1
    /\ mtl_entries = << >>
    /\ out = << >>
    /\ text = "MTL CONVERTER - FULL PIPELINE"
    /\ pc = "input"

\* line 32: ENTER starts the loop, Ctrl+C raises KeyboardInterrupt
Input ==
    /\ pc = "input"
    /\ \E key \in {"ENTER", "Ctrl+C"} :
           pc' = IF key = "ENTER" THEN "for" ELSE "KeyboardInterrupt"
    /\ UNCHANGED <<df, idx, mtl_entries, text, out>>

\* lines 40-41 and 12-16: the next script of the list is started
StartStep ==
    /\ pc = "for"
    /\ idx <= Len(df)
    /\ out' = Append(out, Event("start", df[idx].script, df[idx].num))
    /\ text' = "RUNNING STEP"
    /\ pc' = "os.system"
    /\ UNCHANGED <<df, idx, mtl_entries>>

\* lines 16-20 and 41-43: os.system returns; a result other than 0 ends main
\* with 1
StepExits ==
    /\ pc = "os.system"
    /\ \E result \in SystemResults :
           IF run_step(result)
           THEN /\ out' = Append(out, Event("exit", df[idx].script, result))
                /\ idx' = idx + 1
                /\ pc' = "for"
                /\ UNCHANGED text
           ELSE /\ out' = Append(out, Event("exit", df[idx].script, result))
                          \o <<Event("return", "", 1)>>
                /\ text' = "[ERROR] Pipeline stopped."
                /\ pc' = "returned"
                /\ UNCHANGED idx
    /\ UNCHANGED <<df, mtl_entries>>

\* lines 45-52: the list is exhausted
AllStepsComplete ==
    /\ pc = "for"
    /\ idx > Len(df)
    /\ out' = Append(out, Event("return", "", 0))
    /\ text' = "ALL STEPS COMPLETE!"
    /\ pc' = "returned"
    /\ UNCHANGED <<df, idx, mtl_entries>>

NextRunAll == Input \/ StartStep \/ StepExits \/ AllStepsComplete

SpecRunAll == InitRunAll /\ [][NextRunAll]_vars

-----------------------------------------------------------------------------
(* step2_enrich.py: main applies the sources to the frame of step 1 in a   *)
(* fixed sequence.  df is the frame, pc the place in main, out the history  *)
(* of the run: for each source whether it ran, what it read from its file   *)
(* and the frame it left.                                                   *)

\* the frames step 1 leaves, after lines 38-42
Step2Rows ==
    {EnrichRow("A[1]!RD", "Tags.T1", t, "", r, d) @@ ("Number_of_Screens" :> n) :
        t \in {"", "OLD-1"}, r \in {"", "OLD RACK"}, d \in {"", "OLD DESC"}, n \in {0, 2}}

Step2Blank == BlankRow @@ ("Number_of_Screens" :> 1)

Step2Frames == {<<r>> : r \in Step2Rows} \cup {<<r, Step2Blank>> : r \in Step2Rows}

Step2ScreenData ==
    {<< >>,
     <<[io_address |-> "A[1]", target_id |-> "PIT-1", unit |-> "psi", description |-> "CPA TEXT"]>>,
     <<[io_address |-> "B[2]!WR", target_id |-> "", unit |-> "", description |-> "CPA TEXT"]>>}

Step2NeoprojData ==
    {EmptyDict,
     "T1" :> [tag_id |-> "PIT-2", unit |-> "psig", description |-> "NEW RACK"],
     "T2" :> [tag_id |-> "PIT-2", unit |-> "", description |-> ""]}

Step2Aliases ==
    {EmptyDict,
     "A[1]" :> [found |-> TRUE, tag_id |-> "PIT-3", description |-> "ALIAS TEXT"],
     "B[2]!WR" :> [found |-> TRUE, tag_id |-> "PIT-3", description |-> ""]}

\* one source of the run: what ran, what it read, the frame it left
Source(name, ran, data, frame) == [source |-> name, ran |-> ran, data |-> data, frame |-> frame]

InitStep2 ==
    /\ df \in Step2Frames
    /\ idx = 0
    /\ mtl_entries = << >>
    /\ text = ""
    /\ out = << >>
    /\ pc = "hmi"

Stage(name, ran, data, frame, next) ==
    /\ df' = frame
    /\ out' = Append(out, Source(name, ran, data, frame))
    /\ text' = name
    /\ pc' = next
    /\ UNCHANGED <<idx, mtl_entries>>

\* lines 44-53: the screens of the HMI project, CPA or NeoProj, when the
\* project file is there
EnrichFromHmi ==
    /\ pc = "hmi"
    /\ \/ \E rack_data, da_data \in Step2ScreenData :
              Stage("CPA", TRUE, <<rack_data, da_data>>,
                    enrich_from_cpa_screens(df, rack_data, da_data), "csv")
       \/ \E rack_data \in Step2NeoprojData :
              Stage("NEOPROJ", TRUE, rack_data, enrich_from_neoproj_rack(df, rack_data), "csv")
       \/ Stage("", FALSE, << >>, df, "csv")

\* lines 55-59: the CSV export, when it is enabled and the file is there
EnrichFromCsvStage ==
    /\ pc = "csv"
    /\ \/ \E descriptions \in CsvDescriptions, alias_map \in Step2Aliases :
              Stage("CSV", TRUE, [descriptions |-> descriptions, alias_map |-> alias_map],
                    enrich_from_csv(df, descriptions, alias_map), "l5k")
       \/ Stage("CSV", FALSE, << >>, df, "l5k")

\* lines 61-65: the L5K export, when it is enabled and the file is there
EnrichFromL5kStage ==
    /\ pc = "l5k"
    /\ \/ \E descriptions \in L5kDescriptions :
              Stage("L5K", TRUE, [descriptions |-> descriptions],
                    enrich_from_l5k(df, descriptions), "save")
       \/ Stage("L5K", FALSE, << >>, df, "save")

\* line 70: df[df['Number of Screens'] > 0]
filter_unused(frame) == SelectSeq(frame, LAMBDA row : row.Number_of_Screens > 0)

\* lines 67-98: the unused IOs are dropped when FILTER_UNUSED_IOS is set, and
\* the frame is saved
SaveEnriched ==
    /\ pc = "save"
    /\ \E FILTER_UNUSED_IOS \in BOOLEAN :
           df' = IF FILTER_UNUSED_IOS THEN filter_unused(df) ELSE df
    /\ pc' = "done"
    /\ text' = "STEP 2 COMPLETE"
    /\ UNCHANGED <<idx, mtl_entries, out>>

NextStep2 == EnrichFromHmi \/ EnrichFromCsvStage \/ EnrichFromL5kStage \/ SaveEnriched

SpecStep2 == InitStep2 /\ [][NextStep2]_vars

-----------------------------------------------------------------------------
(* step1_extract.py, run_cpa, and parsers/cpa_parser.py: the IONaming and   *)
(* Alarm blocks of a CPA file are read into two dicts and the frame of      *)
(* step 1 is made from them.  text is the CPA file, as the sequence of its  *)
(* blocks; out holds what extract_from_cpa returns; df is the frame.        *)

MaxBlocks == 3

Block(kind, address, comment) == [kind |-> kind, address |-> address, text |-> comment]

CpaBlocks ==
    {Block(k, a, t) : k \in {"IONaming", "Alarm"}, a \in {"A[1]!RD", "B[2]"},
                      t \in {"", "HIGH LEVEL", "TANK LEVEL"}}

\* the files of at most n blocks
RECURSIVE CpaFiles(_)
CpaFiles(n) ==
    IF n = 0 THEN {<< >>}
    ELSE CpaFiles(n - 1) \cup {Append(f, b) : f \in CpaFiles(n - 1), b \in CpaBlocks}

\* the lines of a block, as they stand in the file
BlockLines(b) ==
    IF b.kind = "IONaming"
    THEN <<"      [[[IONaming]]]", "        IONamingAddress=" \o b.address,
           "        IONamingComment=\"" \o b.text \o "\"">>
    ELSE <<"      [[[Alarm]]]", "        IOActive=" \o b.address, "        Text=" \o b.text>>

RECURSIVE FileLines(_)
FileLines(blocks) ==
    IF blocks = << >> THEN << >> ELSE BlockLines(Head(blocks)) \o FileLines(Tail(blocks))

\* attr.split('=', 1)[1]
after_equals(attr) == split1(attr, "=")[2]

\* cpa_parser.py lines 36-44: the attributes of an IONaming block, from line
\* j to the next block or to the 30th line
RECURSIVE scan_ionaming(_, _, _, _, _)
scan_ionaming(lines, j, limit, address, comment) ==
    IF j > Len(lines) \/ j >= limit \/ startswith(str_strip(lines[j]), "[[[")
    THEN [address |-> address, comment |-> comment]
    ELSE LET attr == str_strip(lines[j])
         IN  scan_ionaming(lines, j + 1, limit,
                 IF startswith(attr, "IONamingAddress=")
                 THEN clean_io_address(str_strip(after_equals(attr))) ELSE address,
                 IF startswith(attr, "IONamingComment=")
                 THEN str_strip_chars(str_strip(after_equals(attr)), {"\""}) ELSE comment)

\* cpa_parser.py lines 53-63: the attributes of an Alarm block
RECURSIVE scan_alarm(_, _, _, _, _)
scan_alarm(lines, j, limit, address, alarm_text) ==
    IF \/ j > Len(lines) \/ j >= limit
       \/ (startswith(str_strip(lines[j]), "[[[") /\ ~startswith(str_strip(lines[j]), "[[[["))
    THEN [address |-> address, text |-> alarm_text]
    ELSE LET attr == str_strip(lines[j])
             raw == str_strip(after_equals(attr))
         IN  scan_alarm(lines, j + 1, limit,
                 IF startswith(attr, "IOActive=") /\ ~startswith(attr, "IOActive_") /\ raw # ""
                 THEN clean_io_address(raw) ELSE address,
                 IF startswith(attr, "Text=") THEN raw ELSE alarm_text)

\* a variant in which the text of an alarm is written over the description
\* the address has
alarm_descriptions_last_text(descriptions, alarm) ==
    IF alarm.address # "" /\ alarm.text # ""
    THEN (alarm.address :> alarm.text) @@ descriptions
    ELSE descriptions

\* cpa_parser.py lines 65-68: the descriptions after an Alarm block
alarm_descriptions(descriptions, alarm) ==
    IF alarm.address # "" /\ alarm.text # "" /\ alarm.address \notin DOMAIN descriptions
    THEN (alarm.address :> alarm.text) @@ descriptions
    ELSE descriptions

\* cpa_parser.py lines 30-71: the loop over the lines, from line i
RECURSIVE load_from(_, _, _, _)
load_from(lines, i, descriptions, alarm_ios) ==
    IF i > Len(lines) THEN [descriptions |-> descriptions, alarm_ios |-> alarm_ios]
    ELSE IF str_strip(lines[i]) = "[[[IONaming]]]"
    THEN LET b == scan_ionaming(lines, i + 1, i + 30, "", "")
         IN  load_from(lines, i + 1,
                 IF b.address # "" /\ b.comment # ""
                 THEN (b.address :> b.comment) @@ descriptions ELSE descriptions,
                 alarm_ios)
    ELSE IF str_strip(lines[i]) = "[[[Alarm]]]"
    THEN LET b == scan_alarm(lines, i + 1, i + 30, "", "")
         IN  load_from(lines, i + 1, alarm_descriptions(descriptions, b),
                 IF b.address # "" THEN (b.address :> b.text) @@ alarm_ios ELSE alarm_ios)
    ELSE load_from(lines, i + 1, descriptions, alarm_ios)

\* cpa_parser.py lines 15-73
load_descriptions_and_alarms(lines) == load_from(lines, 1, EmptyDict, EmptyDict)

\* the characters of the addresses and screen names, in the order of their
\* code points
CodePoints == "!-0123456789ABCDEFGHIJKLMNOPQRSTUVWXYZ[]_abcdefghijklmnopqrstuvwxyz"

\* the Python test  a < b  for two strs
RECURSIVE str_less(_, _)
str_less(a, b) ==
    IF b = "" THEN FALSE
    ELSE IF a = "" THEN TRUE
    ELSE IF ch(a, 1) = ch(b, 1) THEN str_less(Tail(a), Tail(b))
    ELSE str_find(CodePoints, ch(a, 1)) < str_find(CodePoints, ch(b, 1))

\* sorted(S) for a set of strs
RECURSIVE sorted(_)
sorted(S) ==
    IF S = {} THEN << >>
    ELSE LET m == CHOOSE x \in S : \A y \in S \ {x} : str_less(x, y)
         IN  <<m>> \o sorted(S \ {m})

\* the dicts of screens extract_from_cpa returns next to the descriptions
IosScreens ==
    {EmptyDict, "A[1]" :> <<"MAIN">>, "C[3]" :> <<"TANKS", "MAIN">>}

\* step1_extract.py lines 39-54: the row of an address
cpa_data_row(address, ios_screens, descriptions, alarm_ios) ==
    LET screens == IF address \in DOMAIN ios_screens THEN ios_screens[address] ELSE << >>
        desc == IF address \in DOMAIN descriptions THEN descriptions[address] ELSE ""
    IN  [IO_Address |-> address,
         Description |-> desc,
         Description_Source |->
             IF desc # ""
             THEN (IF address \in DOMAIN alarm_ios /\ alarm_ios[address] = desc
                   THEN "Alarm" ELSE "IONaming")
             ELSE "",
         Number_of_Screens |-> Len(screens),
         Screens |-> str_join(", ", sorted({screens[k] : k \in 1..Len(screens)})),
         Is_Alarm |-> IF address \in DOMAIN alarm_ios THEN "Yes" ELSE "No"]

\* step1_extract.py line 57: the rows by 'Number of Screens', the larger
\* first, then by 'IO Address'
cpa_sort_values(data) ==
    SortSeq(data, LAMBDA a, b :
        \/ a.Number_of_Screens > b.Number_of_Screens
        \/ a.Number_of_Screens = b.Number_of_Screens /\ str_less(a.IO_Address, b.IO_Address))

\* step1_extract.py lines 35-58
run_cpa(ios_screens, descriptions, alarm_ios) ==
    LET all_ios == sorted(DOMAIN ios_screens \cup DOMAIN alarm_ios)
    IN  cpa_sort_values([k \in 1..Len(all_ios) |->
            cpa_data_row(all_ios[k], ios_screens, descriptions, alarm_ios)])

InitCpa ==
    /\ text \in CpaFiles(MaxBlocks)
    /\ df = << >>
    /\ idx = 0
    /\ mtl_entries = << >>
    /\ out = << >>
    /\ pc = "extract_from_cpa"

\* cpa_parser.py lines 114-134 and the screens of lines 135-190
ExtractFromCpa ==
    /\ pc = "extract_from_cpa"
    /\ \E ios_screens \in IosScreens :
           out' = <<[ios_screens |-> ios_screens,
                     parsed |-> load_descriptions_and_alarms(FileLines(text))]>>
    /\ pc' = "run_cpa"
    /\ UNCHANGED <<df, idx, mtl_entries, text>>

\* step1_extract.py lines 34-58
RunCpa ==
    /\ pc = "run_cpa"
    /\ df' = run_cpa(out[1].ios_screens, out[1].parsed.descriptions, out[1].parsed.alarm_ios)
    /\ pc' = "done"
    /\ UNCHANGED <<idx, mtl_entries, text, out>>

NextCpa == ExtractFromCpa \/ RunCpa

SpecCpa == InitCpa /\ [][NextCpa]_vars

-----------------------------------------------------------------------------
(* Properties of the conversion.                                           *)

\* the description cell is a string, or is missing
StringDescription(row) == row.Description.k \in {"str", "nan"}

\* the hint cell is missing or empty
NoHint(row) == row.target_id_rack \in {PyNaN, PyStr("")}

\* C1: every record whose address and description are strings (the empty and
\* the missing description included) gets an entry, and the
\* target_name_description of the entry is one of VALID_TARGET_NAMES, also
\* when the rescue by classify_from_tag_id assigned it.
C1_TargetNameIsValid ==
    /\ \A i \in 1..Len(mtl_entries) :
          StringDescription(df[i]) =>
              mtl_entries[i].target_name_description \in SeqToSet(VALID_TARGET_NAMES)
    /\ (pc = "raised" /\ idx <= Len(df)) => ~StringDescription(df[idx])

\* a flow transmitter named by the hint alone: nothing but the rescue names it
C1_Witness ==
    /\ Len(mtl_entries) = 1
    /\ df[1] = Row("BIT[5]", PyStr(""), PyStr("FIT100"))
    /\ mtl_entries[1].target_id = "FIT-100"
    /\ mtl_entries[1].target_name_description = "Rate"

\* C2: every entry of a record for which detect_day_volume(address,
\* description) finds 'Day 0 Volume' or 'Day 1 Volume' carries exactly that
\* value as target_name_description, whatever alarm level, HOA, permissive,
\* motor or valve, setpoint or alarm address evidence the record also has.
C2_DayVolumeFirst ==
    \A i \in 1..Len(mtl_entries) :
        LET day_volume == detect_day_volume(df[i].IO_Address, row_description(df[i]))
        IN  day_volume # "" => mtl_entries[i].target_name_description = day_volume

\* a day volume record at an alarm address whose description ends with an
\* alarm tag
C2_Witness ==
    /\ Len(mtl_entries) = 1
    /\ df[1] = Row("ALARM[310]", PyStr("TODAY VOLUME PAHH-310"), PyNaN)
    /\ mtl_entries[1].target_id = "PIT-310"
    /\ mtl_entries[1].target_name_description = "Day 0 Volume"

\* C3: for every measurement letter M of P, L, T, F, A, D, V, every level V of
\* HH, H, LL, L and every number N, convert_alarm_tag_to_transmitter (either
\* version) turns the alarm tag 'MAV-N' into the transmitter tag 'MIT-N' with
\* level V and is_switch false, and leaves the switch tag 'MSV-N' as it is,
\* with level V and is_switch true.
C3_AlarmToTransmitter ==
    pc \in {"step3_convert", "tag_classifier", "done"} =>
        \A k \in 1..Len(out) :
            out[k] = IF df[2] = "A"
                     THEN [tag |-> df[1] \o "IT-" \o df[4], level |-> df[3], is_switch |-> FALSE]
                     ELSE [tag |-> text, level |-> df[3], is_switch |-> TRUE]

\* both versions have converted the alarm tag PALL-37
C3_Witness ==
    /\ pc = "done"
    /\ Len(out) = 2
    /\ text = "PALL-37"
    /\ out[1].tag = "PIT-37" /\ out[2].tag = "PIT-37"

\* a measurement alarm tag 'MAV-N' as the last word of a text: the groups are
\* the letter M, the level V and the number N
re_ends_with_alarm_tag ==
    Re(Cat(<<Alt(<<Bol, Cls(Space)>>), Grp(1, Cls(MeasurementLetters)), Cls({"A"}),
             Grp(2, Alt(<<Lit("HH"), Cls({"H"}), Lit("LL"), Cls({"L"})>>)), Cls({"-"}),
             Grp(3, Cat(<<Plus(Cls(Digit)), Opt(Cls(Upper))>>)), Eol>>), 3, FALSE)

\* the name of a severity level
LevelName(v) ==
    CASE v = "HH" -> "High High Alarm" [] v = "H" -> "High Alarm"
      [] v = "LL" -> "Low Low Alarm"   [] v = "L" -> "Low Alarm"

EndingAlarmTag(row) ==
    IF isinstance_str(row.Description)
    THEN re_search(re_ends_with_alarm_tag, row.Description.s) ELSE NoMatch

\* description starts with pattern 1 of extract_tag_from_alarm_description:
\* a transmitter tag joined to an alarm code
StartsWithPattern1(row) == re_match(re_p1, row.Description.s).ok

\* C4, as the specification states it: the entry of a record with no hints
\* whose description ends with a measurement alarm tag 'MAV-N' has target_id
\* 'MIT-N' and, as target_name_description, the name of the level V.
C4_ScenarioA_AsStated ==
    \A i \in 1..Len(mtl_entries) :
        LET s == df[i].Description.s
            m == EndingAlarmTag(df[i])
        IN  (NoHint(df[i]) /\ m.ok) =>
                /\ mtl_entries[i].target_id = group(m, s, 1) \o "IT-" \o group(m, s, 3)
                /\ mtl_entries[i].target_name_description = LevelName(group(m, s, 2))

\* C4: the entry of a record with no hints whose description ends with a
\* measurement alarm tag 'MAV-N' and does not start with a transmitter tag
\* joined to an alarm code has target_id 'MIT-N'; when no day volume, HOA or
\* permissive pattern is found, its target_name_description is the name of the
\* level V, followed by ' Setpoint' when the description has the word
\* setpoint (or 'set point').
C4_ScenarioA ==
    \A i \in 1..Len(mtl_entries) :
        LET s == df[i].Description.s
            m == EndingAlarmTag(df[i])
            description == row_description(df[i])
        IN  (NoHint(df[i]) /\ m.ok /\ ~StartsWithPattern1(df[i])) =>
                /\ mtl_entries[i].target_id = group(m, s, 1) \o "IT-" \o group(m, s, 3)
                /\ ( /\ detect_day_volume(df[i].IO_Address, description) = ""
                     /\ ~detect_hoa_pattern(description)
                     /\ ~detect_permissive_pattern(description) )
                   => mtl_entries[i].target_name_description =
                          LevelName(group(m, s, 2))
                          \o (IF re_search(re_has_setpoint, s).ok THEN " Setpoint" ELSE "")

\* the scenario of the specification
C4_Witness ==
    /\ Len(mtl_entries) = 1
    /\ df[1] = Row("ALARM[310]", PyStr("V-700 LP SEPARATOR LEVEL PAHH-310"), PyNaN)
    /\ mtl_entries[1].target_id = "PIT-310"
    /\ mtl_entries[1].target_name_description = "High High Alarm"

\* C5: the entry of a record with no hints, an address WRITEFLOAT[n] and a
\* description containing LEAD, START and SETPOINT has the
\* target_name_description 'Lead Start Setpoint'.
C5_ScenarioB ==
    \A i \in 1..Len(mtl_entries) :
        LET desc_upper == str_upper(py_str(row_description(df[i])))
        IN  ( /\ NoHint(df[i])
              /\ startswith(df[i].IO_Address, "WRITEFLOAT[")
              /\ contains(desc_upper, "LEAD")
              /\ contains(desc_upper, "START")
              /\ contains(desc_upper, "SETPOINT") )
            => mtl_entries[i].target_name_description = "Lead Start Setpoint"

\* an array-style address BASE[N], IO suffixes after it or not: the groups
\* are the base and the number
re_array_address ==
    Re(Cat(<<Bol, Grp(1, Plus(Cls(Word))), Cls({"["}), Grp(2, Plus(Cls(Digit))), Cls({"]"}),
             Star(Alt(<<Lit("!RD"), Lit("!WR"), Lit("!SC")>>)), Eol>>), 2, FALSE)

\* C6: the entry of a record with no description and no hints whose address is
\* array-style, BASE[N] with IO suffixes or without, has target_id 'BASE-N',
\* the whole base kept (RACK00_SLOT06[10]!RD gives RACK00_SLOT06-10), and the
\* target_name_description 'UNCLASSIFIED'.
C6_ScenarioC ==
    \A i \in 1..Len(mtl_entries) :
        LET a == df[i].IO_Address
            m == re_match(re_array_address, a)
        IN  (NoHint(df[i]) /\ df[i].Description \in {PyNaN, PyStr("")} /\ m.ok) =>
                /\ mtl_entries[i].target_id = group(m, a, 1) \o "-" \o group(m, a, 2)
                /\ mtl_entries[i].target_name_description = "UNCLASSIFIED"

\* C7: process_io_to_mtl does not raise for a record whose Description is a
\* number: the run is never ended by such a record.
C7_NoExceptionOnNumber ==
    ~(pc = "raised" /\ idx <= Len(df) /\ df[idx].Description.k = "num")

\* a numeric prefix such as 1: (the one clean_tag_prefix of tag_classifier.py removes)
re_numeric_prefix == Re(Cat(<<Bol, Plus(Cls(Digit)), Cls({":"})>>), 0, FALSE)

\* C8: every target_id of an entry, whether it came from the hint, from the
\* description or from the address, has no leading '<digits>:' prefix, no
\* lowercase letter and no underscore.
C8_NormalForm ==
    \A i \in 1..Len(mtl_entries) :
        LET t == mtl_entries[i].target_id
        IN  /\ ~re_match(re_numeric_prefix, t).ok
            /\ \A k \in 1..Len(t) : ch(t, k) \notin Lower \cup {"_"}

\* C9: normalize_target_id is idempotent: applied to its own result, it
\* returns that result.
C9_NormalizeIdempotent ==
    (pc = "done" /\ Len(out) = 2) => out[2] = out[1]

\* a text the first application changes in every way: blanks stripped,
\* uppercased, a dash put between the letters and the digit
C9_Witness ==
    /\ pc = "done"
    /\ text = " a1"
    /\ out = <<"A-1", "A-1">>

\* the text of the hint cell, "" for a missing cell
HintText(row) == IF isinstance_str(row.target_id_rack) THEN row.target_id_rack.s ELSE ""

C11_NonEmptyTagId ==
    \A i \in 1..Len(mtl_entries) :
        df[i].IO_Address # "" => mtl_entries[i].target_id # ""

\* C12: normalize_unit_lowercase returns DEGF and DEGC in uppercase for any
\* casing of those two units; for every other non-empty unit it returns a
\* string with no uppercase letter (PSIG gives psig); the empty unit gives the
\* empty string.
C12_UnitNormalization ==
    (pc = "done" /\ Len(out) = 1) =>
        /\ \A u \in {"DEGF", "DEGC"} : str_upper(str_strip(text)) = u => out[1] = u
        /\ str_upper(str_strip(text)) \notin {"DEGF", "DEGC"} =>
               \A k \in 1..Len(out[1]) : ch(out[1], k) \notin Upper
        /\ text = "PSIG" => out[1] = "psig"
        /\ text = "" => out[1] = ""

\* the unit DEGF in mixed casing, with a blank before it
C12_Witness ==
    /\ pc = "done"
    /\ text = " dEgF"
    /\ out = <<"DEGF">>

\* the text of the alarm tag that ends a description
EndingAlarmTagText(row) ==
    LET s == row.Description.s
        m == EndingAlarmTag(row)
    IN  group(m, s, 1) \o "A" \o group(m, s, 2) \o "-" \o group(m, s, 3)

\* C13: the equipment_description of an entry for which an alarm severity was
\* identified holds the equipment name only.  For a record with no hints whose
\* description ends with a measurement alarm tag, the equipment_description
\* holds neither the alarm tag nor the words ALARM and SETPOINT, in any casing;
\* for the description 'V-700 LP SEPARATOR LEVEL PAHH-310' it is exactly
\* 'V-700 Low Pressure Separator Level'.
C13_EquipmentNameOnly ==
    \A i \in 1..Len(mtl_entries) :
        LET e == str_upper(mtl_entries[i].equipment_description)
        IN  /\ (NoHint(df[i]) /\ EndingAlarmTag(df[i]).ok /\ ~StartsWithPattern1(df[i])) =>
                   /\ ~contains(e, EndingAlarmTagText(df[i]))
                   /\ ~contains(e, "ALARM")
                   /\ ~contains(e, "SETPOINT")
            /\ (NoHint(df[i]) /\ df[i].Description = PyStr("V-700 LP SEPARATOR LEVEL PAHH-310")) =>
                   mtl_entries[i].equipment_description = "V-700 Low Pressure Separator Level"

\* C14: first write wins: a target_id_rack, target_units, rack_description or
\* Description cell that is not empty before an enricher runs has the same
\* value after the enricher has run, for every enricher and every sequence
\* of enrichers.
C14_FirstWriteWins ==
    [][\A i \in 1..Len(df) : \A f \in EnrichedFields :
          df[i][f] # "" => df'[i][f] = df[i][f]]_vars

\* C15: the address is never rewritten: the iconics_plc_path of every entry
\* is the 'IO Address' of its row, IO suffixes included, and the screens and
\* description_source of the entry are the cells of the row, whatever the tag
\* id made from the address or the hint.
C15_AddressVerbatim ==
    \A i \in 1..Len(mtl_entries) :
        /\ mtl_entries[i].iconics_plc_path = df[i].IO_Address
        /\ df[i].Description_Source # Absent =>
               mtl_entries[i].description_source = df[i].Description_Source
        /\ df[i].Screens # Absent => mtl_entries[i].screens = df[i].Screens

\* an address of IO suffixes only gives a tag id other than the address, and
\* the entry keeps the address and the audit cells
C15_Witness ==
    /\ Len(mtl_entries) = 1
    /\ df[1].IO_Address = "X!SC!WR!RD"
    /\ df[1].target_id_rack = PyNaN
    /\ df[1].Description_Source = PyStr("CSV")
    /\ df[1].Screens = PyNum(3)
    /\ mtl_entries[1].iconics_plc_path = "X!SC!WR!RD"
    /\ mtl_entries[1].target_id # "X!SC!WR!RD"
    /\ mtl_entries[1].description_source = PyStr("CSV")
    /\ mtl_entries[1].screens = PyNum(3)

TagLevel(row) ==
    convert_alarm_tag_to_transmitter(normalize_target_id(
        tag_id_before_normalize(row.IO_Address, row_description(row),
                                row_rack_target_id(row)))).level

\* no day volume, no HOA and no permissive rule applies to the row
NoEarlierRule(row) ==
    /\ detect_day_volume(row.IO_Address, row_description(row)) = ""
    /\ ~detect_hoa_pattern(row_description(row))
    /\ ~detect_permissive_pattern(row_description(row))

\* the value of the motor or valve resolver for the row and its tag id
ResolverName(row, tag_id) ==
    IF classify_equipment_type(row.IO_Address, row_description(row), tag_id) = "motor"
    THEN resolve_motor_tnd(row.IO_Address, row_description(row)).name
    ELSE resolve_valve_tnd(row.IO_Address, tag_id, row_description(row)).name

\* C17: the equipment-type rule is gated by the severity found on the tag
\* only: when no day volume, HOA or permissive rule applies, the point is a
\* motor or a valve and the tag id carries no alarm severity, the target name
\* is the value of the motor or valve resolver, whatever the description.
C17_EquipmentTypeGate ==
    \A i \in 1..Len(mtl_entries) :
        ( /\ NoEarlierRule(df[i])
          /\ classify_equipment_type(df[i].IO_Address, row_description(df[i]),
                                     mtl_entries[i].target_id) \in {"motor", "valve"}
          /\ TagLevel(df[i]) = "" )
        => mtl_entries[i].target_name_description
               = ResolverName(df[i], mtl_entries[i].target_id)

\* the tag id of a row as STEPS 3 to 5b leave it, before the valve tag id is
\* resolved at STEP 5c
TagBeforeValveStep(row) ==
    normalize_transmitter_prefix(
        convert_alarm_tag_to_transmitter(normalize_target_id(
            tag_id_before_normalize(row.IO_Address, row_description(row),
                                    row_rack_target_id(row)))).tag)

\* the severity of a row after STEPS 5d and 5e
FinalLevel(row) ==
    with_severity(
        alarm_level_and_switch(
            convert_alarm_tag_to_transmitter(normalize_target_id(
                tag_id_before_normalize(row.IO_Address, row_description(row),
                                        row_rack_target_id(row)))),
            row_description(row)),
        row.IO_Address, row_description(row)).level

\* the letters of a tag id before its first '-'
TagPrefix(tag_id) ==
    IF contains(tag_id, "-") THEN str_upper(split_first(tag_id, "-")) ELSE str_upper(tag_id)

\* C18: the valve resolver goes by the prefix of the tag id: a valve point with
\* no alarm severity and no day volume, HOA or permissive match whose tag id
\* (from the hint or from the description) has the prefix ZSO or XSO is an
\* 'Open Switch Status', and one with ZSC or XSC a 'Closed Switch Status',
\* whatever the description and the address.
C18_ValvePrefix ==
    \A i \in 1..Len(mtl_entries) :
        ( /\ NoEarlierRule(df[i])
          /\ classify_equipment_type(df[i].IO_Address, row_description(df[i]),
                                     mtl_entries[i].target_id) = "valve"
          /\ FinalLevel(df[i]) = "" )
        => /\ TagPrefix(TagBeforeValveStep(df[i])) \in {"ZSO", "XSO"}
                => mtl_entries[i].target_name_description = "Open Switch Status"
           /\ TagPrefix(TagBeforeValveStep(df[i])) \in {"ZSC", "XSC"}
                => mtl_entries[i].target_name_description = "Closed Switch Status"

\* C19: HOA and permissive come before everything but the day volume: when no
\* day volume is detected, a description that matches the HOA pattern is a
\* 'Hand/Off/Auto Status', and otherwise a description that contains
\* PERMISSIVE is a 'Permissive Status', whatever the equipment type, the alarm
\* severity, the setpoint keywords and the address.
C19_HoaPermissiveFirst ==
    \A i \in 1..Len(mtl_entries) :
        detect_day_volume(df[i].IO_Address, row_description(df[i])) = "" =>
            /\ detect_hoa_pattern(row_description(df[i]))
                 => mtl_entries[i].target_name_description = "Hand/Off/Auto Status"
            /\ ( /\ ~detect_hoa_pattern(row_description(df[i]))
                 /\ detect_permissive_pattern(row_description(df[i])) )
                 => mtl_entries[i].target_name_description = "Permissive Status"

\* a pump HOA point at an alarm address whose description ends with a high
\* high alarm tag
C19_Witness ==
    /\ Len(mtl_entries) = 1
    /\ df[1].IO_Address = "ALARM[310]"
    /\ df[1].Description = PyStr("PUMP HOA PAHH-310")
    /\ FinalLevel(df[1]) = "HH"
    /\ mtl_entries[1].target_id = "PIT-310"
    /\ mtl_entries[1].target_name_description = "Hand/Off/Auto Status"

\* C20: TODAY means Day 0: detect_day_volume returns 'Day 0 Volume' for every
\* description that contains the literal TODAY and does not contain
\* YESTERDAY, whatever else the description and the address contain, and
\* 'Day 1 Volume' for every description that contains YESTERDAY.
C20_TodayIsDayZero ==
    Len(out) >= 1 =>
        /\ (contains(text, "TODAY") /\ ~contains(text, "YESTERDAY"))
               => out[1] = "Day 0 Volume"
        /\ contains(text, "YESTERDAY") => out[1] = "Day 1 Volume"

\* the codes of a table that occur in the upper-cased description or address
CodesFound(tab, description, address) ==
    {tab[i][1] : i \in {k \in 1..Len(tab) :
        \/ contains(str_upper(description), tab[k][1])
        \/ contains(str_upper(address), tab[k][1])}}

\* a longest code of a set of codes
IsLongest(code, codes) == code \in codes /\ \A c \in codes : Len(c) <= Len(code)

\* C21 as stated: classify_by_pattern consults the alarm codes before the switch codes:
\* when an alarm code occurs in the description or the address the result is
\* a longest alarm code that occurs, whatever switch codes occur beside it;
\* when only switch codes occur it is a longest of them; the transmitter,
\* controller and valve codes are consulted only when neither occurs.
C21_AlarmTableFirst_AsStated ==
    Len(out) = 1 =>
        LET alarms   == CodesFound(ALARM_PATTERNS, text, df[1])
            switches == CodesFound(SWITCH_PATTERNS, text, df[1])
        IN  /\ alarms # {} => out[1].found /\ IsLongest(out[1].pattern, alarms)
            /\ (alarms = {} /\ switches # {})
                   => out[1].found /\ IsLongest(out[1].pattern, switches)
            /\ (alarms = {} /\ switches = {} /\ out[1].found)
                   => out[1].description \in {"Process Value", "Control Signal", "Control Valve"}

\* C21: classify_by_pattern consults the alarm codes and the switch codes as
\* one table, longest code first: when a code of either kind occurs in the
\* description or the address the result is a longest code that occurs, an
\* alarm code if an alarm code is among the longest; the transmitter,
\* controller and valve codes are consulted only when no such code occurs.
C21_LongestCodeFirst ==
    Len(out) = 1 =>
        LET alarms   == CodesFound(ALARM_PATTERNS, text, df[1])
            switches == CodesFound(SWITCH_PATTERNS, text, df[1])
        IN  /\ alarms \cup switches # {}
                   => /\ out[1].found
                      /\ IsLongest(out[1].pattern, alarms \cup switches)
                      /\ (\E a \in alarms : IsLongest(a, alarms \cup switches))
                             => out[1].pattern \in alarms
            /\ (alarms \cup switches = {} /\ out[1].found)
                   => out[1].description \in {"Process Value", "Control Signal", "Control Valve"}

\* a high alarm code and a longer high high switch code in one description:
\* the switch code is the result
C21_Witness ==
    /\ pc = "done"
    /\ text = "PSHH-3 PAH-1"
    /\ df = <<"BIT[5]">>
    /\ out = <<[found |-> TRUE, pattern |-> "PSHH", description |-> "Switch", order |-> 1]>>

\* the severity and the switch flag of a row after STEPS 5d and 5e
FinalSeverity(row) ==
    with_severity(
        alarm_level_and_switch(
            convert_alarm_tag_to_transmitter(normalize_target_id(
                tag_id_before_normalize(row.IO_Address, row_description(row),
                                        row_rack_target_id(row)))),
            row_description(row)),
        row.IO_Address, row_description(row))

\* the validated name of STEP 7 for a row and its tag id, before the rescue
ValidatedName(row, tag_id) ==
    validate_target_name(
        classify_target_name(
            detect_day_volume(row.IO_Address, row_description(row)),
            row.IO_Address, row_description(row), tag_id,
            classify_equipment_type(row.IO_Address, row_description(row), tag_id),
            FinalSeverity(row).level,
            re_search(re_has_setpoint, py_str(row_description(row))).ok,
            FinalSeverity(row).is_sw).name)

\* C22: the rescue by the tag id is scoped: the name of an entry differs from
\* the validated name only when that name is 'UNCLASSIFIED' or 'Spare', the
\* tag id is not empty and classify_from_tag_id recognises its prefix, and then
\* it is the name classify_from_tag_id gives; every other validated name is
\* emitted unchanged.
C22_RescueScope ==
    \A i \in 1..Len(mtl_entries) :
        ~mtl_entries[i].raised =>
            LET tag_id == mtl_entries[i].target_id
                validated == ValidatedName(df[i], tag_id)
                from_tag == classify_from_tag_id(tag_id, df[i].IO_Address).tnd
            IN  IF validated \in {"UNCLASSIFIED", "Spare"} /\ tag_id # "" /\ from_tag # ""
                THEN mtl_entries[i].target_name_description = from_tag
                ELSE mtl_entries[i].target_name_description = validated

\* a spare point whose address is a pressure transmitter: the name 'Spare' is
\* replaced by 'Process Value'
C22_Witness ==
    /\ Len(mtl_entries) = 1
    /\ ~mtl_entries[1].raised
    /\ ValidatedName(df[1], mtl_entries[1].target_id) \in {"UNCLASSIFIED", "Spare"}
    /\ classify_from_tag_id(mtl_entries[1].target_id, df[1].IO_Address).tnd # ""
    /\ mtl_entries[1].target_name_description
           = classify_from_tag_id(mtl_entries[1].target_id, df[1].IO_Address).tnd
    /\ mtl_entries[1].target_name_description \notin {"UNCLASSIFIED", "Spare"}

\* the words of a text: the parts of its whitespace-separated tokens between
\* dashes
RECURSIVE DashWords(_)
DashWords(tokens) ==
    IF tokens = << >> THEN << >>
    ELSE str_split(Head(tokens), "-") \o DashWords(Tail(tokens))

HasDigit(word) == \E i \in 1..Len(word) : ch(word, i) \in Digit

\* every word with a digit is the same word, at the same place, in the result
DigitWordsKept(s, result) ==
    /\ Len(DashWords(split_ws(result))) = Len(DashWords(split_ws(s)))
    /\ \A k \in 1..Len(DashWords(split_ws(s))) :
           HasDigit(DashWords(split_ws(s))[k])
               => DashWords(split_ws(result))[k] = DashWords(split_ws(s))[k]

\* C23: proper-casing leaves digit words alone: to_proper_case, and
\* capitalize_proper built on it, return every whitespace- or dash-separated
\* word that contains a digit unchanged ('4TH' stays '4TH', '2A' stays '2A').
C23_DigitWordsUnchanged ==
    \A k \in 1..Len(out) : DigitWordsKept(text, out[k])

\* the measurement word of the first letter of a tag id, '' when there is none
MeasurementWord(target_id) ==
    IF target_id # "" /\ ch(str_upper(target_id), 1) \in DOMAIN ISA_MEASUREMENT
    THEN ISA_MEASUREMENT[ch(str_upper(target_id), 1)]
    ELSE ""

\* C24: for every tag id whose first letter is one of P, T, L, F, A, V and
\* every equipment description, the empty one included, that does not hold
\* the measurement word of that letter in any case, the result is the
\* description with the word appended; when the word is present or the letter
\* maps to nothing the description is returned unchanged.
C24_IsaWordAppended ==
    pc = "done" =>
        IF MeasurementWord(df[1]) # ""
           /\ ~contains(str_upper(text), str_upper(MeasurementWord(df[1])))
        THEN out[1] \in {text \o " " \o MeasurementWord(df[1]),
                         IF text = "" THEN MeasurementWord(df[1]) ELSE text}
                 \ {text}
        ELSE out[1] = text

\* the positions of the history with an event of a kind
EventsAt(ev) == {p \in 1..Len(out) : out[p].ev = ev}

\* C25: run_all runs the steps strictly in the order step1_extract,
\* step2_enrich, step3_convert; a step is started only after every earlier
\* step ended with 0; after the first result other than 0 no step is started
\* and main returns 1; 'ALL STEPS COMPLETE' is printed and 0 is returned only
\* after the three steps ended with 0.
C25_PipelineOrder ==
    /\ \A p \in EventsAt("start") :
           /\ out[p].script = steps[Cardinality({q \in EventsAt("start") : q <= p})].script
           /\ Cardinality({q \in EventsAt("exit") : q < p})
                  = Cardinality({q \in EventsAt("start") : q < p})
           /\ \A q \in EventsAt("exit") : q < p => out[q].value = 0
    /\ \A p \in EventsAt("exit") :
           /\ p > 1 /\ out[p - 1].ev = "start" /\ out[p - 1].script = out[p].script
           /\ out[p].value # 0 =>
                  /\ Len(out) = p + 1
                  /\ out[p + 1] = Event("return", "", 1)
                  /\ pc = "returned"
    /\ (text = "ALL STEPS COMPLETE!" \/ \E p \in EventsAt("return") : out[p].value = 0)
           => /\ Cardinality(EventsAt("start")) = 3
              /\ Cardinality({p \in EventsAt("exit") : out[p].value = 0}) = 3
              /\ out[Len(out)] = Event("return", "", 0)
              /\ text = "ALL STEPS COMPLETE!"
    /\ pc = "returned" => out[Len(out)].ev = "return"

\* the second step fails after the first succeeded: the third is not started
\* and main returns 1
C25_Witness ==
    out = <<Event("start", "step1_extract.py", 1), Event("exit", "step1_extract.py", 0),
            Event("start", "step2_enrich.py", 2), Event("exit", "step2_enrich.py", 1),
            Event("return", "", 1)>>

\* the text a table of descriptions holds for an address
TableText(descriptions, io_address) ==
    py_or(dict_get(descriptions, io_address),
          dict_get(descriptions, normalize_for_lookup(io_address)))

\* the row of a frame with an address
RowsOf(frame, io_address) == {i \in 1..Len(frame) : frame[i].IO_Address = io_address}

\* C26: step 2 applies the sources in the order HMI screens, CSV, L5K, and
\* L5K fills only the Description cells that are still empty; so an IO whose
\* Description is empty after the screens and for which both the COMMENT
\* table of the CSV and the table of the L5K hold a text ends with the text
\* of the CSV and the Description Source 'CSV'.
C26_SourceOrder ==
    /\ \A k \in 1..Len(out) : out[k].source \in <<{"CPA", "NEOPROJ", ""}, {"CSV"}, {"L5K"}>>[k]
    /\ Len(out) = 3 =>
           \A i \in 1..Len(out[2].frame) :
               out[2].frame[i].Description # ""
                   => out[3].frame[i].Description = out[2].frame[i].Description
    /\ pc = "done" =>
           \A i \in 1..Len(df) : \A j \in RowsOf(out[1].frame, df[i].IO_Address) :
               ( /\ out[1].frame[j].Description = ""
                 /\ out[2].ran /\ out[3].ran
                 /\ TableText(out[2].data.descriptions, df[i].IO_Address).found
                 /\ TableText(out[3].data.descriptions, df[i].IO_Address).found )
               => /\ df[i].Description
                        = TableText(out[2].data.descriptions, df[i].IO_Address).s
                  /\ df[i].Description_Source = "CSV"

\* an IO with no description after the screens, a COMMENT and an L5K text
C26_Witness ==
    /\ pc = "done"
    /\ Len(df) >= 1
    /\ out[1].frame[1].Description = ""
    /\ out[2].ran /\ out[3].ran
    /\ TableText(out[2].data.descriptions, df[1].IO_Address).found
    /\ TableText(out[3].data.descriptions, df[1].IO_Address).found
    /\ df[1].Description = "COMMENT TEXT"
    /\ df[1].Description_Source = "CSV"

\* the switch flag convert_alarm_tag_to_transmitter gives for the tag id of a
\* row, STEP 5a
TagIsSwitch(row) ==
    convert_alarm_tag_to_transmitter(normalize_target_id(
        tag_id_before_normalize(row.IO_Address, row_description(row),
                                row_rack_target_id(row)))).is_switch

\* the record is classified by the alarm severity rule of STEP 6
BySeverityRule(row, tag_id) ==
    /\ NoEarlierRule(row)
    /\ FinalLevel(row) # ""
    /\ ~(classify_equipment_type(row.IO_Address, row_description(row), tag_id)
             \in {"motor", "valve"} /\ FinalLevel(row) = "")

\* C27: the switch flag survives the search for a severity: when the tag id
\* is a switch for convert_alarm_tag_to_transmitter and the record is
\* classified by the alarm severity rule, the name is 'Alarm' at an address of
\* the alarm array and 'Input' elsewhere, never a High or Low alarm name,
\* also when the severity comes from the description.
C27_SwitchFlagKept ==
    \A i \in 1..Len(mtl_entries) :
        ( /\ ~mtl_entries[i].raised
          /\ TagIsSwitch(df[i])
          /\ BySeverityRule(df[i], mtl_entries[i].target_id) )
        => mtl_entries[i].target_name_description
               = IF re_match(re_alarm_plc_address, df[i].IO_Address).ok THEN "Alarm" ELSE "Input"

\* the rows of a frame for which the ALIAS branch of enrich_from_csv writes a
\* description: no tag id, no description, an ALIAS entry with a description
AliasWrites(row, alias_map) ==
    /\ row.target_id_rack = ""
    /\ row.Description = ""
    /\ TableText(alias_map, row.IO_Address).found
    /\ TableText(alias_map, row.IO_Address).description # ""

\* C28: enrich_from_csv keeps its own first write: for an IO with an empty
\* Description whose address has an ALIAS entry with a description and a
\* COMMENT entry, the Description after the run is the one the ALIAS branch
\* wrote, with the source 'CSV_ALIAS'; the COMMENT branch does not write over
\* it, and Description Source names the branch whose text is in Description.
C28_AliasTextKept ==
    (Len(out) >= 2 /\ out[2].ran) =>
        \A i \in 1..Len(out[1].frame) :
            LET before == out[1].frame[i]
                after == out[2].frame[i]
                tables == out[2].data
            IN  /\ ( /\ AliasWrites(before, tables.alias_map)
                     /\ TableText(tables.descriptions, before.IO_Address).found )
                   => /\ after.Description
                            = TableText(tables.alias_map, before.IO_Address).description
                      /\ after.Description_Source = "CSV_ALIAS"
                /\ (before.Description = "" /\ after.Description_Source = "CSV")
                       => after.Description
                              = TableText(tables.descriptions, before.IO_Address).s
                /\ (before.Description = "" /\ after.Description_Source = "CSV_ALIAS")
                       => after.Description
                              = TableText(tables.alias_map, before.IO_Address).description

\* the blocks of a kind in the file that give a text for an address
BlocksFor(kind, address) ==
    {k \in 1..Len(text) : /\ text[k].kind = kind
                          /\ clean_io_address(text[k].address) = address
                          /\ text[k].text # ""}

\* C29: the label of a CPA description names its block: whatever the order
\* and the number of IONaming and Alarm blocks of an address, the Description
\* is the comment of an IONaming block when there is one, with the source
\* 'IONaming', and else the text of an Alarm block, with the source 'Alarm'.
C29_ProvenanceLabel ==
    pc = "done" =>
        \A i \in 1..Len(df) :
            IF BlocksFor("IONaming", df[i].IO_Address) # {}
            THEN /\ df[i].Description
                        \in {text[k].text : k \in BlocksFor("IONaming", df[i].IO_Address)}
                 /\ df[i].Description_Source = "IONaming"
            ELSE IF BlocksFor("Alarm", df[i].IO_Address) # {}
            THEN /\ df[i].Description
                        \in {text[k].text : k \in BlocksFor("Alarm", df[i].IO_Address)}
                 /\ df[i].Description_Source = "Alarm"
            ELSE df[i].Description = "" /\ df[i].Description_Source = ""

\* C30: the two paths from an alarm tag to its transmitter agree: for every
\* measurement alarm tag (letter P, L, T, F, A, D or V, modifier X or I or
\* none, or the form PDA, a level and a number) the target_id made from the
\* tag given as the hint is the target_id made from the tag at the end of the
\* description with no hint.
C30_PathsAgree ==
    pc = "done" => out[1] = out[2]

====
